---- MODULE Spec2Model ----
(***************************************************************************)
(* Photory: the natural-language search compiler of                        *)
(* src/server/app/images_routes.py, and the catalog it is applied to.      *)
(*                                                                         *)
(* Text is a sequence of characters.  A character is a string: an ASCII    *)
(* character stands for itself, a hanzi is named by its pinyin, other      *)
(* punctuation by a short name:                                            *)
(*   拍 pai  摄 she  于 yu  上 shang  传 chuan  年 nian  月 yue  日 ri      *)
(*   号 hao  兆 zhao  到 dao  至 zhi  以 yi  大 da  不 bu  少 shao  下 xia   *)
(*   小 xiao  超 chao  过 guo  最 zui  多 duo  像 xiang4  素 su  相 xiang    *)
(*   册 ce  专 zhuan  辑 ji2  文 wen  件 jian4  夹 jia  的 de  之 zhi1       *)
(*   名 ming  为 wei  叫 jiao  做 zuo  称 cheng  标 biao  题 ti  在 zai      *)
(*   或 huo  者 zhe  是 shi  则 ze  还 hai  并 bing  且 qie  而 er  同 tong  *)
(*   时 shi2  及 ji3  又 you  间 jian  区 qu  范 fan  围 wei2  内 nei  和 he *)
(*   机 ji  镜 jing4  头 tou  型 xing  分 fen  辨 bian  率 lv  容 rong       *)
(*   量 liang  所 suo  有 you3  全 quan  部 bu4  都 dou  图 tu  片 pian      *)
(*   照 zhao4  帮 bang  我 wo  要 yao  想 xiang3  请 qing  麻 ma  烦 fan2    *)
(*   忙 mang  查 cha  找 zhao3  搜 sou  索 suo3  检 jian3  出 chu  列 lie    *)
(*   显 xian  示 shi4  关 guan  应 ying  用 yong  使 shi3  从 cong  中 zhong *)
(*   里 li  面 mian  需 xu  能 neng  可 ke  看 kan  一 yi1  包 bao  含 han   *)
(*   主 zhu  子 zi3  落 luo  猫 mao  风 feng  景 jing  狗 gou                *)
(*   － fwdash  – endash  — emdash  ‑ nbhyphen  − minus  “ ldq  ” rdq       *)
(*   ‘ lsq  ’ rsq  ， fwcomma  。 fwstop  ； fwsemi  ： fwcolon  ！ fwbang   *)
(*   ？ fwq  （ fwlp  ） fwrp  《 lbk  》 rbk  × times  " dq  \ bslash       *)
(***************************************************************************)
EXTENDS Integers, Sequences, FiniteSets, TLC

VARIABLES text, hints, images, disk, op, req, pred, result, total, status, out,
          today, retention, purge, gone, tagrows, links, agent

\* the recycle bin: the day, RECYCLE_RETENTION_DAYS, the purge thread, and the
\* ids of the rows that were deleted for good
recycleVars == <<today, retention, purge, gone>>

\* the tags and the image_tags table
tagVars == <<tagrows, links>>

\* a call of ReActAgent.run_task
agentVars == <<agent>>

vars == <<text, hints, images, disk, op, req, pred, result, total, status, out,
          today, retention, purge, gone, tagrows, links, agent>>

\* Python's None.  An optional number n is <<n>>; an optional text or datetime
\* is the value itself where the code tests only its truth.
None == <<>>

Some(x) == <<x>>

(***************************************************************************)
(* Character classes of Python's re on str patterns.                       *)
(***************************************************************************)
Digits == {"0", "1", "2", "3", "4", "5", "6", "7", "8", "9"}

LowerLetters == <<"a", "b", "c", "d", "e", "f", "g", "h", "i", "j", "k", "l", "m",
                  "n", "o", "p", "q", "r", "s", "t", "u", "v", "w", "x", "y", "z">>

UpperLetters == <<"A", "B", "C", "D", "E", "F", "G", "H", "I", "J", "K", "L", "M",
                  "N", "O", "P", "Q", "R", "S", "T", "U", "V", "W", "X", "Y", "Z">>

Range(sq) == {sq[i] : i \in 1..Len(sq)}

Letters == Range(LowerLetters) \cup Range(UpperLetters)

\* [一-龥]: the hanzi of the model's alphabet
CJK == {"pai", "she", "yu", "shang", "chuan", "nian", "yue", "ri", "hao", "zhao",
        "dao", "zhi", "yi", "da", "bu", "shao", "xia", "xiao", "chao", "guo", "zui",
        "duo", "xiang4", "su", "xiang", "ce", "zhuan", "ji2", "wen", "jian4", "jia",
        "de", "zhi1", "ming", "wei", "jiao", "zuo", "cheng", "biao", "ti", "zai",
        "huo", "zhe", "shi", "ze", "hai", "bing", "qie", "er", "tong", "shi2", "ji3",
        "you", "jian", "qu", "fan", "wei2", "nei", "he", "ji", "jing4", "tou", "xing",
        "fen", "bian", "lv", "rong", "liang", "suo", "you3", "quan", "bu4", "dou",
        "tu", "pian", "zhao4", "bang", "wo", "yao", "xiang3", "qing", "ma", "fan2",
        "mang", "cha", "zhao3", "sou", "suo3", "jian3", "chu", "lie", "xian", "shi4",
        "guan", "ying", "yong", "shi3", "cong", "zhong", "li", "mian", "xu", "neng",
        "ke", "kan", "yi1", "bao", "han", "zhu", "zi3", "luo", "mao", "feng", "jing",
        "gou"}

\* \w, \s
WordChars == Letters \cup Digits \cup CJK \cup {"_"}

Spaces == {" ", "nl", "tab"}

\* str.lower() of one character
Lower(c) ==
    IF \E i \in 1..26 : UpperLetters[i] = c
    THEN LowerLetters[CHOOSE i \in 1..26 : UpperLetters[i] = c]
    ELSE c

LowerText(s) == ([i \in 1..Len(s) |-> Lower(s[i])] \o <<>>)

(***************************************************************************)
(* Python's re: a backtracking matcher.  A pattern is a tree of nodes; the *)
(* matcher lists the ways a pattern can match at a position in the order   *)
(* in which backtracking tries them, so the first one is re's match.       *)
(***************************************************************************)
\* [cs]
Cls(cs) == [t |-> "set", cs |-> cs]

\* [^cs]
NCls(cs) == [t |-> "nset", cs |-> cs]

\* r1 r2 ...
Cat(rs) == [t |-> "seq", rs |-> rs]

\* r1|r2|...
Alt(rs) == [t |-> "alt", rs |-> rs]

\* r{lo,hi}, greedy; hi = -1 is unbounded
Rep(r, lo, hi) ==
    [t |-> IF r.t \in {"set", "nset"} THEN "run" ELSE "rep",
     r |-> r, lo |-> lo, hi |-> hi, lazy |-> FALSE]

\* r{lo,hi}?
LazyRep(r, lo, hi) ==
    [t |-> IF r.t \in {"set", "nset"} THEN "run" ELSE "rep",
     r |-> r, lo |-> lo, hi |-> hi, lazy |-> TRUE]

\* r*, r+, r?
Star(r) == Rep(r, 0, -1)

Plus(r) == Rep(r, 1, -1)

Opt(r) == Rep(r, 0, 1)

\* (r), capturing group number id
Grp(id, r) == [t |-> "grp", id |-> id, r |-> r]

\* a literal word
Lit(w) == [t |-> "lit", w |-> w, ci |-> FALSE]

\* a literal word under re.IGNORECASE
LitI(w) == [t |-> "lit", w |-> w, ci |-> TRUE]

\* w1|w2|...
Words(ws) == Alt(([i \in 1..Len(ws) |-> Lit(ws[i])] \o <<>>))

WordsI(ws) == Alt(([i \in 1..Len(ws) |-> LitI(ws[i])] \o <<>>))

\* \b, ^, $
WordB == [t |-> "wb"]

Bos == [t |-> "bos"]

Eos == [t |-> "eos"]

\* the empty pattern
Empty == Cat(<<>>)

NoCaps == <<<<0, 0>>, <<0, 0>>, <<0, 0>>, <<0, 0>>>>

IsWordAt(s, p) == p >= 1 /\ p <= Len(s) /\ s[p] \in WordChars

\* F(x), x evaluated before F is applied to it
Eager(x, F(_)) == CHOOSE y \in {F(v) : v \in {x}} : TRUE

\* sep.join(ps[lo..hi])
RECURSIVE JoinRange(_, _, _, _)
JoinRange(ps, sep, lo, hi) ==
    IF lo > hi THEN <<>>
    ELSE IF lo = hi THEN ps[lo]
    ELSE LET mid == (lo + hi) \div 2
         IN  JoinRange(ps, sep, lo, mid) \o sep \o JoinRange(ps, sep, mid + 1, hi)

Join(ps, sep) == JoinRange(ps, sep, 1, Len(ps))

\* the number of characters from position p on that the class node r accepts
RunLen(r, s, p) ==
    LET bad == {i \in p..Len(s) : (s[i] \in r.cs) # (r.t = "set")}
    IN  IF bad = {} THEN Len(s) - p + 1
        ELSE (CHOOSE i \in bad : \A j \in bad : i <= j) - p

\* ReEnds(r, s, st): the states [p, c] in which a match of r that starts in
\* state st can end, in the order in which the backtracking matcher tries them:
\* p is the position after the match, c the groups
RECURSIVE ReEnds(_, _, _)
RECURSIVE ReSeq(_, _, _, _, _)
RECURSIVE ReRep(_, _, _, _)

\* the ends of r from each of the states sts, in order
ReEach(r, s, sts) ==
    Join(([i \in 1..Len(sts) |-> ReEnds(r, s, sts[i])] \o <<>>), <<>>)

\* the ends of rs[lo] rs[lo+1] ... rs[hi] from the states sts
ReSeq(rs, s, sts, lo, hi) ==
    IF sts = <<>> \/ lo > hi THEN sts
    ELSE IF lo = hi THEN ReEach(rs[lo], s, sts)
    ELSE LET mid == (lo + hi) \div 2
             a == ReSeq(rs, s, sts, lo, mid)
         IN  IF a = <<>> THEN a ELSE ReSeq(rs, s, a, mid + 1, hi)

\* the ends of r.r{lo,hi} after k repetitions that ended in st: greedy, one more
\* repetition is tried before stopping; lazy, after.  A repetition past the
\* minimum has to consume something.
ReRep(r, s, st, k) ==
    LET nx == IF r.hi >= 0 /\ k >= r.hi THEN <<>>
              ELSE SelectSeq(ReEnds(r.r, s, st), LAMBDA e : e.p > st.p \/ k < r.lo)
        more == Join(([i \in 1..Len(nx) |-> ReRep(r, s, nx[i], k + 1)] \o <<>>), <<>>)
        stop == IF k >= r.lo THEN <<st>> ELSE <<>>
    IN  IF r.lazy THEN stop \o more ELSE more \o stop

ReEnds(r, s, st) ==
    CASE r.t = "set" ->
           IF st.p <= Len(s) /\ s[st.p] \in r.cs
           THEN <<[st EXCEPT !.p = @ + 1]>> ELSE <<>>
      [] r.t = "nset" ->
           IF st.p <= Len(s) /\ s[st.p] \notin r.cs
           THEN <<[st EXCEPT !.p = @ + 1]>> ELSE <<>>
      [] r.t = "lit" ->
           IF st.p + Len(r.w) - 1 <= Len(s)
              /\ (LET w == SubSeq(s, st.p, st.p + Len(r.w) - 1)
                  IN  IF r.ci THEN LowerText(w) = LowerText(r.w) ELSE w = r.w)
           THEN <<[st EXCEPT !.p = @ + Len(r.w)]>> ELSE <<>>
      [] r.t = "seq" -> ReSeq(r.rs, s, <<st>>, 1, Len(r.rs))
      [] r.t = "alt" ->
           Join(([k \in 1..Len(r.rs) |-> ReEnds(r.rs[k], s, st)] \o <<>>), <<>>)
      \* a repeated class: the longest run first (the shortest when lazy)
      [] r.t = "run" ->
           LET avail == RunLen(r.r, s, st.p)
               n == IF r.hi >= 0 /\ r.hi < avail THEN r.hi ELSE avail
           IN  IF n < r.lo THEN <<>>
               ELSE ([k \in 1..(n - r.lo + 1) |->
                        [st EXCEPT !.p = @ + (IF r.lazy THEN r.lo + k - 1
                                                        ELSE n - k + 1)]] \o <<>>)
      [] r.t = "rep" -> ReRep(r, s, st, 0)
      [] r.t = "grp" ->
           LET es == ReEnds(r.r, s, st)
           IN  ([i \in 1..Len(es) |->
                    [es[i] EXCEPT !.c[r.id] = <<st.p, es[i].p>>]] \o <<>>)
      [] r.t = "wb" ->
           IF IsWordAt(s, st.p - 1) # IsWordAt(s, st.p) THEN <<st>> ELSE <<>>
      [] r.t = "bos" -> IF st.p = 1 THEN <<st>> ELSE <<>>
      \* $: at the end, or before a final newline
      [] r.t = "eos" ->
           IF st.p = Len(s) + 1 \/ (st.p = Len(s) /\ s[st.p] = "nl")
           THEN <<st>> ELSE <<>>

NoMatch == [ok |-> FALSE, b |-> 0, e |-> 0, c |-> NoCaps]

\* the first of the ends of a match that starts at position b
FirstEnd(ends, b) ==
    IF ends # <<>> THEN [ok |-> TRUE, b |-> b, e |-> ends[1].p, c |-> ends[1].c]
    ELSE NoMatch

\* the match of r in s that starts at position b, if any: s[b..e-1], c its
\* groups; adv: the match must not be empty (the scanner's must_advance)
ReMatchAt(r, s, b, adv) ==
    FirstEnd(SelectSeq(ReEnds(r, s, [p |-> b, c |-> NoCaps]), LAMBDA e : ~adv \/ e.p > b),
             b)

\* the match at every position of s; in ReTableAdv the empty ones are replaced
\* by what the matcher finds when it must advance
ReTable(r, s) == ([b \in 1..(Len(s) + 1) |-> ReMatchAt(r, s, b, FALSE)] \o <<>>)

ReTableAdv(r, s, M) ==
    ([b \in 1..Len(M) |->
        IF M[b].ok /\ M[b].e = b THEN ReMatchAt(r, s, b, TRUE) ELSE M[b]] \o <<>>)

\* the first match that starts at or after `from`; adv: not an empty one at `from`
FirstFrom(M, MA, from, adv) ==
    LET At(b) == IF adv /\ b = from THEN MA[b] ELSE M[b]
        hits == {b \in from..Len(M) : At(b).ok}
    IN  IF hits = {} THEN NoMatch ELSE At(CHOOSE b \in hits : \A b2 \in hits : b <= b2)

\* re.search(r, s)
ReSearch(r, s) ==
    Eager(s, LAMBDA t : Eager(ReTable(r, t), LAMBDA M : FirstFrom(M, M, 1, FALSE)))

ReFound(r, s) ==
    Eager(s, LAMBDA t : \E b \in 1..(Len(t) + 1) : ReMatchAt(r, t, b, FALSE).ok)

\* the text of group id of match m, empty when the group took no part
GroupOf(s, m, id) ==
    IF m.c[id] = <<0, 0>> THEN <<>> ELSE SubSeq(s, m.c[id][1], m.c[id][2] - 1)

\* one step of the scanner of re.sub/findall/split: the next match, which
\* must not be empty where the previous one was
ScanStep(M, MA, sc) ==
    IF sc.done THEN sc
    ELSE LET m == FirstFrom(M, MA, sc.from, sc.adv)
         IN  IF ~m.ok THEN [sc EXCEPT !.done = TRUE]
             ELSE [ms |-> Append(sc.ms, m), from |-> m.e, adv |-> m.e = m.b,
                   done |-> FALSE]

\* n steps of the scanner
RECURSIVE ScanLoop(_, _, _, _)
ScanLoop(M, MA, sc, n) ==
    IF n = 0 THEN sc
    ELSE IF n = 1 THEN ScanStep(M, MA, sc)
    ELSE LET a == ScanLoop(M, MA, sc, n \div 2)
         IN  IF a.done THEN a ELSE ScanLoop(M, MA, a, n - (n \div 2))

\* all matches of r in s, as the scanner finds them
ReScan(r, s) ==
    Eager(ReTable(r, s), LAMBDA M :
        Eager(ReTableAdv(r, s, M), LAMBDA MA :
            ScanLoop(M, MA, [ms |-> <<>>, from |-> 1, adv |-> FALSE, done |-> FALSE],
                     Len(M) + Len(MA)).ms))

\* the pieces of s between the matches ms
Between(ms, s) ==
    ([k \in 1..(Len(ms) + 1) |->
        SubSeq(s, IF k = 1 THEN 1 ELSE ms[k - 1].e,
                  IF k <= Len(ms) THEN ms[k].b - 1 ELSE Len(s))] \o <<>>)

\* re.sub(r, repl, s), repl without group references
ReSub(r, repl, s) ==
    Eager(s, LAMBDA t : Eager(ReScan(r, t), LAMBDA ms : Join(Between(ms, t), repl)))

\* re.findall(r, s) for a pattern without groups
ReFindAll(r, s) ==
    Eager(s, LAMBDA t : Eager(ReScan(r, t), LAMBDA ms :
        ([i \in 1..Len(ms) |-> SubSeq(t, ms[i].b, ms[i].e - 1)] \o <<>>)))

\* re.split(r, s) for a pattern without capturing groups
ReSplit(r, s) == Eager(s, LAMBDA t : Eager(ReScan(r, t), LAMBDA ms : Between(ms, t)))

(***************************************************************************)
(* str methods                                                             *)
(***************************************************************************)
\* w in s
StartsAt(s, i, w) == i + Len(w) - 1 <= Len(s) /\ SubSeq(s, i, i + Len(w) - 1) = w

Contains(s, w) == \E i \in 1..(Len(s) + 1) : StartsAt(s, i, w)

ContainsAny(s, ws) == \E k \in 1..Len(ws) : Contains(s, ws[k])

\* s.replace(w, repl), w non-empty: the occurrences from left to right
StrReplace(s, w, repl) == ReSub([t |-> "lit", w |-> w, ci |-> FALSE], repl, s)

\* s.strip(cs)
LStrip(s, cs) ==
    IF \A i \in 1..Len(s) : s[i] \in cs THEN <<>>
    ELSE SubSeq(s, CHOOSE i \in 1..Len(s) :
                      s[i] \notin cs /\ \A j \in 1..(i - 1) : s[j] \in cs, Len(s))

RStrip(s, cs) ==
    IF \A i \in 1..Len(s) : s[i] \in cs THEN <<>>
    ELSE SubSeq(s, 1, CHOOSE i \in 1..Len(s) :
                         s[i] \notin cs /\ \A j \in (i + 1)..Len(s) : s[j] \in cs)

Strip(s, cs) == Eager(s, LAMBDA t : Eager(LStrip(t, cs), LAMBDA u : RStrip(u, cs)))

\* the maximal runs of characters of s outside seps, from left to right
SplitBy(s, seps) ==
    LET starts == SelectSeq(([i \in 1..Len(s) |-> i] \o <<>>),
                            LAMBDA i : s[i] \notin seps /\ (i = 1 \/ s[i - 1] \in seps))
        stop(i) == CHOOSE j \in i..Len(s) :
                       /\ j = Len(s) \/ s[j + 1] \in seps
                       /\ \A k \in i..(j - 1) : s[k + 1] \notin seps
    IN  ([k \in 1..Len(starts) |-> SubSeq(s, starts[k], stop(starts[k]))] \o <<>>)

\* s.split()
SplitWs(s) == SplitBy(s, Spaces)

\* the items of a list, without repetition, in order of first appearance
Uniq(xs) ==
    LET first == SelectSeq(([i \in 1..Len(xs) |-> i] \o <<>>),
                           LAMBDA i : \A j \in 1..(i - 1) : xs[j] # xs[i])
    IN  ([k \in 1..Len(first) |-> xs[first[k]]] \o <<>>)

Member(xs, x) == \E i \in 1..Len(xs) : xs[i] = x

(***************************************************************************)
(* Numbers and dates                                                       *)
(***************************************************************************)
DigitVal(c) == CHOOSE n \in 0..9 : <<"0", "1", "2", "3", "4", "5", "6", "7", "8", "9">>[n + 1] = c

\* int(s) of a string of digits
RECURSIVE ToInt(_)
ToInt(s) == IF s = <<>> THEN 0 ELSE ToInt(SubSeq(s, 1, Len(s) - 1)) * 10 + DigitVal(s[Len(s)])

RECURSIVE Pow10(_)
Pow10(n) == IF n = 0 THEN 1 ELSE 10 * Pow10(n - 1)

\* s.split(c), without the empty parts
SplitOn(s, c) == SplitBy(s, {c})

IsLeap(y) == (y % 4 = 0 /\ y % 100 # 0) \/ y % 400 = 0

DaysInMonth(y, m) ==
    IF m = 2 THEN (IF IsLeap(y) THEN 29 ELSE 28)
    ELSE IF m \in {4, 6, 9, 11} THEN 30 ELSE 31

\* datetime(y, m, d, 0, 0, 0), or None where the constructor raises
MkDate(y, m, d) ==
    IF y >= 1 /\ y <= 9999 /\ m >= 1 /\ m <= 12 /\ d >= 1 /\ d <= DaysInMonth(y, m)
    THEN <<y, m, d, 0, 0, 0, 0>> ELSE None

StartOfDay(dt) == <<dt[1], dt[2], dt[3], 0, 0, 0, 0>>

EndOfDay(dt) == <<dt[1], dt[2], dt[3], 23, 59, 59, 999999>>

\* a < b, a <= b on datetimes
RECURSIVE DtLtFrom(_, _, _)
DtLtFrom(a, b, i) ==
    IF i > 7 THEN FALSE
    ELSE IF a[i] # b[i] THEN a[i] < b[i] ELSE DtLtFrom(a, b, i + 1)

DtLt(a, b) == DtLtFrom(a, b, 1)

DtLe(a, b) == a = b \/ DtLt(a, b)

(***************************************************************************)
(* _normalize_query_text                                                   *)
(***************************************************************************)
_normalize_query_text(t) ==
    ([i \in 1..Len(t) |->
        IF t[i] \in {"fwdash", "endash", "emdash", "nbhyphen", "minus"} THEN "-" ELSE t[i]] \o <<>>)

(***************************************************************************)
(* _ai_parse_date_range                                                    *)
(***************************************************************************)
\* \d{4}[-./年]\d{1,2}[-./月]\d{1,2}
DatePattern ==
    Cat(<<Rep(Cls(Digits), 4, 4), Cls({"-", ".", "/", "nian"}), Rep(Cls(Digits), 1, 2),
          Cls({"-", ".", "/", "yue"}), Rep(Cls(Digits), 1, 2)>>)

_to_dt(token) ==
    Eager(SplitOn(StrReplace(StrReplace(
                      ReSub(Cls({"nian", "yue", "/", "."}), <<"-">>, token),
                      <<"ri">>, <<>>), <<"hao">>, <<>>), "-"),
          LAMBDA parts :
            IF Len(parts) < 3 THEN None
            ELSE IF \E k \in 1..3 : \E i \in 1..Len(parts[k]) : parts[k][i] \notin Digits
                 THEN None
                 ELSE MkDate(ToInt(parts[1]), ToInt(parts[2]), ToInt(parts[3])))

\* a choice of field in which a capture word would win over an upload word
DateFieldCaptureFirst(t) ==
    Eager(LowerText(t), LAMBDA lowered :
        IF ContainsAny(t, <<<<"pai", "she">>, <<"she", "yu">>>>)
           \/ Contains(lowered, <<"t", "a", "k", "e", "n">>)
           \/ Contains(lowered, <<"c", "a", "p", "t", "u", "r", "e">>)
        THEN "taken" ELSE "created")

DateField(t) ==
    Eager(LowerText(t), LAMBDA lowered :
        IF Contains(t, <<"shang", "chuan">>)
           \/ Contains(lowered, <<"u", "p", "l", "o", "a", "d">>)
        THEN "created"
        ELSE IF ContainsAny(t, <<<<"pai", "she">>, <<"she", "yu">>>>)
                \/ Contains(lowered, <<"t", "a", "k", "e", "n">>)
                \/ Contains(lowered, <<"c", "a", "p", "t", "u", "r", "e">>)
             THEN "taken" ELSE "created")

\* the first two dates as they are written, not sorted
UnsortedFirstTwo(dates) == <<dates[1], dates[2]>>

\* sorted(dates[:2])
SortedFirstTwo(dates) ==
    IF DtLt(dates[2], dates[1]) THEN <<dates[2], dates[1]>> ELSE <<dates[1], dates[2]>>

_ai_parse_date_range(raw) ==
    Eager(_normalize_query_text(raw), LAMBDA t :
    Eager(DateField(t), LAMBDA field :
    Eager(ReFindAll(DatePattern, t), LAMBDA tokens :
    Eager(SelectSeq(([i \in 1..Len(tokens) |-> _to_dt(tokens[i])] \o <<>>),
                    LAMBDA d : d # None), LAMBDA dates :
        IF Len(dates) >= 2
        THEN Eager(SortedFirstTwo(dates), LAMBDA two :
                [start |-> StartOfDay(two[1]), end |-> EndOfDay(two[2]), field |-> field])
        ELSE IF Len(dates) = 1
             THEN [start |-> StartOfDay(dates[1]), end |-> EndOfDay(dates[1]),
                   field |-> field]
             ELSE [start |-> None, end |-> None, field |-> field]))))

(***************************************************************************)
(* _ai_parse_size                                                          *)
(***************************************************************************)
\* \d+(?:\.\d+)?
NumPattern == Cat(<<Plus(Cls(Digits)), Opt(Cat(<<Cls({"."}), Plus(Cls(Digits))>>))>>)

\* (k|kb|m|mb|g|gb|兆), re.IGNORECASE
UnitPattern == WordsI(<<<<"k">>, <<"k", "b">>, <<"m">>, <<"m", "b">>, <<"g">>, <<"g", "b">>,
                        <<"zhao">>>>)

\* (?:-|~|到|至|—|–)
RangeConnective == Cls({"-", "~", "dao", "zhi", "emdash", "endash"})

unit_map(u) ==
    CASE u \in {<<"k", "b">>, <<"k">>} -> 1024
      [] u \in {<<"m", "b">>, <<"m">>, <<"zhao">>} -> 1024 * 1024
      [] u \in {<<"g", "b">>, <<"g">>} -> 1024 * 1024 * 1024
      [] OTHER -> 0

\* int(float(num) * factor): the factor is a power of two, so the product is
\* exact and int() is the floor of the decimal's product
_to_bytes(num, unit) ==
    IF unit = <<>> THEN None
    ELSE Eager(unit_map(LowerText(unit)), LAMBDA factor :
         Eager(SplitOn(num, "."), LAMBDA ps :
            IF factor = 0 THEN None
            ELSE IF Len(ps) = 1 THEN Some(ToInt(ps[1]) * factor)
                 ELSE Some(ToInt(ps[1]) * factor
                           + (ToInt(ps[2]) * factor) \div Pow10(Len(ps[2])))))

SizeRangePattern ==
    Cat(<<Grp(1, NumPattern), Star(Cls(Spaces)), Opt(Grp(2, UnitPattern)),
          Star(Cls(Spaces)), RangeConnective, Star(Cls(Spaces)),
          Grp(3, NumPattern), Star(Cls(Spaces)), Opt(Grp(4, UnitPattern))>>)

\* (\d+(?:\.\d+)?)\s*(k|kb|m|mb|g|gb|兆)\s*b?
SizeSinglePattern ==
    Cat(<<Grp(1, NumPattern), Star(Cls(Spaces)), Grp(2, UnitPattern),
          Star(Cls(Spaces)), Opt(Cls({"b", "B"}))>>)

NoSize == [min |-> None, max |-> None]

\* a size extractor that would leave the ends of a range as they are written
_ai_parse_size_as_written(raw) ==
    IF raw = <<>> THEN NoSize
    ELSE
    Eager(_normalize_query_text(raw), LAMBDA t :
    Eager(ReSub(DatePattern, <<" ">>, t), LAMBDA text_wo_dates :
    Eager(ReSearch(SizeRangePattern, text_wo_dates), LAMBDA range_match :
    Eager(GroupOf(text_wo_dates, range_match, 2), LAMBDA unit_left :
    Eager(GroupOf(text_wo_dates, range_match, 4), LAMBDA unit_right :
    Eager(_to_bytes(GroupOf(text_wo_dates, range_match, 1),
                    IF unit_left # <<>> THEN unit_left ELSE unit_right), LAMBDA min_b :
    Eager(_to_bytes(GroupOf(text_wo_dates, range_match, 3),
                    IF unit_right # <<>> THEN unit_right ELSE unit_left), LAMBDA max_b :
    Eager(ReSearch(SizeSinglePattern, text_wo_dates), LAMBDA m :
    Eager(_to_bytes(GroupOf(text_wo_dates, m, 1), GroupOf(text_wo_dates, m, 2)),
          LAMBDA val_bytes :
        IF range_match.ok
        THEN (IF unit_left = <<>> /\ unit_right = <<>> THEN NoSize
              ELSE IF min_b = None \/ max_b = None THEN NoSize
              ELSE [min |-> min_b, max |-> max_b])
        ELSE IF ~m.ok THEN NoSize
        ELSE IF val_bytes = None THEN NoSize
        ELSE IF ContainsAny(t, <<<<"yi", "shang">>, <<"da", "yu">>, <<">">>, <<"bu", "shao", "yu">>, <<"zhi", "shao">>, <<"g", "r", "e", "a", "t", "e", "r">>>>)
             THEN [min |-> val_bytes, max |-> None]
        ELSE IF ContainsAny(t, <<<<"yi", "xia">>, <<"xiao", "yu">>, <<"<">>, <<"bu", "chao", "guo">>, <<"zui", "duo">>, <<"bu", "da", "yu">>, <<"a", "t", " ", "m", "o", "s", "t">>>>)
             THEN [min |-> None, max |-> val_bytes]
        ELSE [min |-> val_bytes, max |-> val_bytes])))))))))

_ai_parse_size(raw) ==
    IF raw = <<>> THEN NoSize
    ELSE
    Eager(_normalize_query_text(raw), LAMBDA t :
    Eager(ReSub(DatePattern, <<" ">>, t), LAMBDA text_wo_dates :
    Eager(ReSearch(SizeRangePattern, text_wo_dates), LAMBDA range_match :
    Eager(GroupOf(text_wo_dates, range_match, 2), LAMBDA unit_left :
    Eager(GroupOf(text_wo_dates, range_match, 4), LAMBDA unit_right :
    Eager(_to_bytes(GroupOf(text_wo_dates, range_match, 1),
                    IF unit_left # <<>> THEN unit_left ELSE unit_right), LAMBDA min_b :
    Eager(_to_bytes(GroupOf(text_wo_dates, range_match, 3),
                    IF unit_right # <<>> THEN unit_right ELSE unit_left), LAMBDA max_b :
    Eager(ReSearch(SizeSinglePattern, text_wo_dates), LAMBDA m :
    Eager(_to_bytes(GroupOf(text_wo_dates, m, 1), GroupOf(text_wo_dates, m, 2)),
          LAMBDA val_bytes :
        IF range_match.ok
        THEN (IF unit_left = <<>> /\ unit_right = <<>> THEN NoSize
              ELSE IF min_b = None \/ max_b = None THEN NoSize
              ELSE IF min_b[1] > max_b[1] THEN [min |-> max_b, max |-> min_b]
              ELSE [min |-> min_b, max |-> max_b])
        ELSE IF ~m.ok THEN NoSize
        ELSE IF val_bytes = None THEN NoSize
        ELSE IF ContainsAny(t, <<<<"yi", "shang">>, <<"da", "yu">>, <<">">>, <<"bu", "shao", "yu">>, <<"zhi", "shao">>, <<"g", "r", "e", "a", "t", "e", "r">>>>)
             THEN [min |-> val_bytes, max |-> None]
        ELSE IF ContainsAny(t, <<<<"yi", "xia">>, <<"xiao", "yu">>, <<"<">>, <<"bu", "chao", "guo">>, <<"zui", "duo">>, <<"bu", "da", "yu">>, <<"a", "t", " ", "m", "o", "s", "t">>>>)
             THEN [min |-> None, max |-> val_bytes]
        ELSE [min |-> val_bytes, max |-> val_bytes])))))))))

(***************************************************************************)
(* _ai_parse_resolution                                                    *)
(***************************************************************************)
\* [xX×*]
TimesSign == Cls({"x", "X", "times", "*"})

\* (\d{3,5})\s*[xX×*]\s*(\d{3,5})
WxHPattern ==
    Cat(<<Grp(1, Rep(Cls(Digits), 3, 5)), Star(Cls(Spaces)), TimesSign,
          Star(Cls(Spaces)), Grp(2, Rep(Cls(Digits), 3, 5))>>)

\* (\d{3,8})\s*(?:像素|px), re.IGNORECASE
PxPattern ==
    Cat(<<Grp(1, Rep(Cls(Digits), 3, 8)), Star(Cls(Spaces)),
          WordsI(<<<<"xiang4", "su">>, <<"p", "x">>>>)>>)

\* (\d{3,4})p
PPattern == Cat(<<Grp(1, Rep(Cls(Digits), 3, 4)), Cls({"p"})>>)

NoRes == [pixels |-> None, width |-> None, height |-> None]

_ai_parse_resolution(t) ==
    Eager(ReSearch(WxHPattern, t), LAMBDA m :
        IF m.ok
        THEN Eager(ToInt(GroupOf(t, m, 1)), LAMBDA w :
             Eager(ToInt(GroupOf(t, m, 2)), LAMBDA h :
                [width |-> Some(w), height |-> Some(h), pixels |-> Some(w * h)]))
        ELSE
        Eager(ReSearch(PxPattern, t), LAMBDA m_px :
        Eager(LowerText(t), LAMBDA low :
            IF m_px.ok
            THEN [NoRes EXCEPT !.pixels = Some(ToInt(GroupOf(t, m_px, 1)))]
            ELSE IF Contains(low, <<"4", "k">>)
            THEN [width |-> Some(3840), height |-> Some(2160), pixels |-> Some(3840 * 2160)]
            ELSE IF Contains(low, <<"2", "k">>)
            THEN [width |-> Some(2560), height |-> Some(1440), pixels |-> Some(2560 * 1440)]
            ELSE
            Eager(ReSearch(PPattern, low), LAMBDA m_p :
                IF m_p.ok
                THEN Eager(ToInt(GroupOf(low, m_p, 1)), LAMBDA h :
                        \* int(h * 16 / 9)
                        Eager((h * 16) \div 9, LAMBDA w :
                            [height |-> Some(h), width |-> Some(w), pixels |-> Some(w * h)]))
                ELSE NoRes))))

(***************************************************************************)
(* _ai_parse_album                                                         *)
(***************************************************************************)
\* [“”"'‘’]
QuoteChars == {"ldq", "rdq", "dq", "'", "lsq", "rsq"}

\* (相册|专辑|文件夹)
AlbumNoun == Words(<<<<"xiang", "ce">>, <<"zhuan", "ji2">>, <<"wen", "jian4", "jia">>>>)

\* .
AnyChar == NCls({"nl"})

\* [一-龥A-Za-z0-9_\-]
NameChars == CJK \cup Letters \cup Digits \cup {"_", "-"}

_clean(nm) ==
    Strip(ReSub(Cat(<<Plus(Cls({"de", "zhi1"})), Star(AnyChar), Eos>>), <<>>,
              ReSub(Cat(<<AlbumNoun, Eos>>), <<>>,
                  ReSub(Cls(QuoteChars), <<>>, nm))),
          {" ", "fwcomma", "fwstop", ",", ":", "fwcolon"})

\* (?:名为|叫做|叫|名称为|标题为)\s*[“"'‘]?([一-龥A-Za-z0-9_\- ]{1,40})[”"'’]?\s*的?(?:相册|专辑|文件夹)
AlbumNamedPattern ==
    Cat(<<Words(<<<<"ming", "wei">>, <<"jiao", "zuo">>, <<"jiao">>, <<"ming", "cheng",
            "wei">>, <<"biao", "ti", "wei">>>>), Star(Cls(Spaces)),
          Opt(Cls({"ldq", "dq", "'", "lsq"})),
          Grp(1, Rep(Cls(NameChars \cup {" "}), 1, 40)),
          Opt(Cls({"rdq", "dq", "'", "rsq"})), Star(Cls(Spaces)), Opt(Lit(<<"de">>)),
          AlbumNoun>>)

\* (?:相册名称为|相册名为|相册叫|相册标题为|相册名|相册叫做|专辑为|专辑叫做|文件夹为)[“"'‘]?(...{1,40})[”"'’]?
AlbumTitledPattern ==
    Cat(<<Words(<<<<"xiang", "ce", "ming", "cheng", "wei">>, <<"xiang", "ce", "ming",
            "wei">>, <<"xiang", "ce", "jiao">>, <<"xiang", "ce", "biao", "ti", "wei">>,
            <<"xiang", "ce", "ming">>, <<"xiang", "ce", "jiao", "zuo">>, <<"zhuan", "ji2",
            "wei">>, <<"zhuan", "ji2", "jiao", "zuo">>, <<"wen", "jian4", "jia", "wei">>>>),
          Opt(Cls({"ldq", "dq", "'", "lsq"})),
          Grp(1, Rep(Cls(NameChars \cup {" "}), 1, 40)),
          Opt(Cls({"rdq", "dq", "'", "rsq"}))>>)

\* “([^”]+)”, "([^"]+)", '([^']+)', ‘([^’]+)’
QuotedPatterns ==
    <<Cat(<<Cls({"ldq"}), Grp(1, Plus(NCls({"rdq"}))), Cls({"rdq"})>>),
      Cat(<<Cls({"dq"}), Grp(1, Plus(NCls({"dq"}))), Cls({"dq"})>>),
      Cat(<<Cls({"'"}), Grp(1, Plus(NCls({"'"}))), Cls({"'"})>>),
      Cat(<<Cls({"lsq"}), Grp(1, Plus(NCls({"rsq"}))), Cls({"rsq"})>>)>>

\* 在?([一-龥A-Za-z0-9_\-]{1,30})[的之]?(?:相册|专辑|文件夹)
AlbumLoosePattern ==
    Cat(<<Opt(Lit(<<"zai">>)), Grp(1, Rep(Cls(NameChars), 1, 30)), Opt(Cls({"de", "zhi1"})),
          AlbumNoun>>)

\* album[:：\s]*([\w一-龥\- ]{2,40}), re.IGNORECASE
AlbumEnglishPattern ==
    Cat(<<LitI(<<"a", "l", "b", "u", "m">>), Star(Cls({":", "fwcolon"} \cup Spaces)),
          Grp(1, Rep(Cls(WordChars \cup {"-", " "}), 2, 40))>>)

\* the title, empty for None
_ai_parse_album(t) ==
    \* the captured name of the first pattern that matches, then _clean
    Eager(Eager(ReSearch(AlbumNamedPattern, t), LAMBDA m_named :
            IF m_named.ok THEN Some(GroupOf(t, m_named, 1))
            ELSE
            Eager(ReSearch(AlbumTitledPattern, t), LAMBDA m0 :
                IF m0.ok THEN Some(GroupOf(t, m0, 1))
                ELSE
                Eager(SelectSeq(QuotedPatterns, LAMBDA pat : ReFound(pat, t)),
                      LAMBDA quoted :
                    IF quoted # <<>> THEN Some(GroupOf(t, ReSearch(quoted[1], t), 1))
                    ELSE
                    Eager(ReSearch(AlbumLoosePattern, t), LAMBDA m2 :
                        IF m2.ok THEN Some(GroupOf(t, m2, 1))
                        ELSE
                        Eager(ReSearch(AlbumEnglishPattern, t), LAMBDA m4 :
                            IF m4.ok THEN Some(GroupOf(t, m4, 1))
                            ELSE None))))),
          LAMBDA name : IF name = None THEN None ELSE _clean(name[1]))

(***************************************************************************)
(* _ai_detect_logic_mode                                                   *)
(***************************************************************************)
\* (或者是|或者|或是|或则|还是|或)
OrWords == Words(<<<<"huo", "zhe", "shi">>, <<"huo", "zhe">>, <<"huo", "shi">>, <<"huo",
        "ze">>, <<"hai", "shi">>, <<"huo">>>>)

\* a detector that would look for the conjunctive words first
_ai_detect_logic_mode_and_first(t) ==
    IF t = <<>> THEN "auto"
    ELSE IF ReFound(Words(<<<<"bing", "qie">>, <<"er", "qie">>, <<"tong", "shi2">>, <<"yi",
            "ji3">>, <<"you">>, <<"bing", "qie", "hai">>, <<"bing", "qie", "tong",
            "shi2">>>>), t) THEN "and"
    ELSE IF ReFound(OrWords, t) THEN "or"
    ELSE "auto"

_ai_detect_logic_mode(t) ==
    IF t = <<>> THEN "auto"
    ELSE IF ReFound(OrWords, t) THEN "or"
    ELSE IF ReFound(Words(<<<<"bing", "qie">>, <<"er", "qie">>, <<"tong", "shi2">>, <<"yi",
            "ji3">>, <<"you">>, <<"bing", "qie", "hai">>, <<"bing", "qie", "tong",
            "shi2">>>>), t) THEN "and"
    ELSE "auto"

(***************************************************************************)
(* _is_noise_keyword                                                       *)
(***************************************************************************)
\* ^(w1|w2|...)$
Whole(ws) == Cat(<<Bos, Words(ws), Eos>>)

noise_patterns ==
    <<Whole(<<<<"suo", "you3">>, <<"quan", "bu4">>, <<"quan", "bu4", "de">>, <<"suo",
            "you3", "de">>, <<"dou">>, <<"quan", "bu4", "dou">>, <<"suo", "you3",
            "dou">>>>),
      Whole(<<<<"bing", "qie">>, <<"er", "qie">>, <<"tong", "shi2">>, <<"yi", "ji3">>,
              <<"qie">>, <<"he">>, <<"huo", "zhe">>, <<"huo", "shi">>, <<"huo", "ze">>,
              <<"hai", "shi">>, <<"huo">>>>),
      Whole(<<<<"shang", "chuan">>, <<"shang", "chuan", "yu">>, <<"shang", "chuan", "de">>,
              <<"pai", "she">>, <<"pai", "she", "yu">>, <<"pai", "de">>, <<"she", "yu">>>>),
      Whole(<<<<"xiang", "ce">>, <<"zhuan", "ji2">>, <<"wen", "jian4", "jia">>, <<"xiang",
              "ji">>, <<"jing4", "tou">>, <<"ji", "xing">>>>),
      Whole(<<<<"fen", "bian", "lv">>, <<"xiang4", "su">>, <<"da", "xiao">>, <<"rong",
              "liang">>, <<"wen", "jian4", "da", "xiao">>>>),
      Whole(<<<<"xiao", "yu">>, <<"da", "yu">>, <<"yi", "shang">>, <<"yi", "xia">>, <<"bu",
              "chao", "guo">>, <<"bu", "shao", "yu">>, <<"zhi", "shao">>, <<"zui",
              "duo">>>>),
      Whole(<<<<"zhi1", "jian">>, <<"qu", "jian">>, <<"fan", "wei2">>, <<"yi", "nei">>>>),
      Whole(<<<<"tu", "pian">>, <<"zhao4", "pian">>, <<"xiang", "pian">>>>),
      Whole(<<<<"bang", "wo">>, <<"wei", "wo">>, <<"wo", "yao">>, <<"wo", "xiang3">>,
              <<"qing">>, <<"ma", "fan2">>, <<"bang", "mang">>, <<"cha", "zhao3">>,
              <<"sou", "suo3">>, <<"jian3", "suo3">>, <<"zhao3">>, <<"zhao3", "chu">>,
              <<"lie", "chu">>, <<"xian", "shi4">>>>),
      Whole(<<<<"xiang", "guan">>, <<"xiang", "ying">>>>),
      Cat(<<Bos, Lit(<<"shang", "chuan">>), Star(AnyChar), Words(<<<<"tu", "pian">>,
              <<"zhao4", "pian">>, <<"xiang", "pian">>>>), Eos>>)>>

_is_noise_keyword(token) ==
    IF token = <<>> THEN TRUE
    ELSE
    Eager(Strip(LowerText(token), Spaces), LAMBDA low :
        \/ low \in {<<"a", "n", "d">>, <<"o", "r">>}
        \/ low \in {<<"a", "l", "b", "u", "m">>}
        \/ low \in Range(<<<<"zhi1", "jian">>, <<"qu", "jian">>, <<"fan", "wei2">>, <<"yi",
                "nei">>>>)
        \/ low \in Range(<<<<"bing", "qie">>, <<"er", "qie">>, <<"tong", "shi2">>, <<"yi",
                "ji3">>, <<"qie">>, <<"he">>, <<"huo", "zhe">>, <<"huo", "shi">>, <<"huo",
                "ze">>, <<"hai", "shi">>, <<"huo">>>>)
        \/ ContainsAny(low, <<<<"xiang", "ce">>, <<"zhuan", "ji2">>, <<"wen", "jian4",
                "jia">>, <<"shang", "chuan">>, <<"pai", "she">>, <<"she", "yu">>,
                <<"xiang", "ji">>, <<"jing4", "tou">>, <<"ji", "xing">>, <<"fen", "bian",
                "lv">>, <<"xiang4", "su">>, <<"da", "xiao">>, <<"rong", "liang">>, <<"wen",
                "jian4", "da", "xiao">>, <<"xiao", "yu">>, <<"da", "yu">>, <<"yi",
                "shang">>, <<"yi", "xia">>, <<"bu", "chao", "guo">>, <<"bu", "shao",
                "yu">>, <<"zhi", "shao">>, <<"zui", "duo">>, <<"ming", "wei">>, <<"jiao",
                "zuo">>, <<"ming", "cheng", "wei">>, <<"biao", "ti", "wei">>, <<"bing",
                "qie">>, <<"er", "qie">>, <<"tong", "shi2">>, <<"yi", "ji3">>, <<"huo",
                "zhe">>>>)
        \/ \E k \in 1..Len(noise_patterns) : ReFound(noise_patterns[k], low))

(***************************************************************************)
(* _ai_parse_camera_keyword                                                *)
(***************************************************************************)
\* [\w一-龥\- ]
CameraChars == WordChars \cup {"-", " "}

\* the phrase, empty for None
_ai_parse_camera_keyword(t) ==
    IF t = <<>> THEN None
    ELSE
    Eager(ReSearch(Cat(<<Words(<<<<"xiang", "ji">>, <<"ji", "xing">>>>),
                         Star(NCls(WordChars)),
                         Grp(1, Rep(Cls(CameraChars), 2, 40))>>), t), LAMBDA m1 :
    Eager(ReSearch(Cat(<<Lit(<<"jing4", "tou">>), Star(NCls(WordChars)),
                         Grp(1, Rep(Cls(CameraChars), 2, 40))>>), t), LAMBDA m2 :
    Eager(ReSearch(Cat(<<Words(<<<<"yong">>, <<"shi3", "yong">>>>),
                         Grp(1, LazyRep(Cls(CameraChars), 2, 40)),
                         Words(<<<<"pai", "she">>, <<"pai", "de">>, <<"pai", "zhao4">>,
                                 <<"pai">>>>)>>), t), LAMBDA m3 :
        IF ContainsAny(t, <<<<"xiang", "ji">>, <<"jing4", "tou">>, <<"ji", "xing">>>>)
           /\ (m1.ok \/ m2.ok)
        THEN Strip(GroupOf(t, IF m1.ok THEN m1 ELSE m2, 1), Spaces)
        ELSE IF m3.ok THEN Strip(GroupOf(t, m3, 1), Spaces)
        ELSE None)))

(***************************************************************************)
(* _nl_extract_keyword_groups                                              *)
(***************************************************************************)
OR_MARK == <<"_", "_", "O", "R", "_", "_">>

AND_MARK == <<"_", "_", "A", "N", "D", "_", "_">>

\* r"[，。,.；;:：!！?？()（）\\[\\]{}《》<>]+": the class ends at the first "]", and
\* the rest is the literal {}《》<> and one or more "]"
KwPunctPattern ==
    Cat(<<Cls({"fwcomma", "fwstop", ",", ".", "fwsemi", ";", ":", "fwcolon", "!", "fwbang",
               "?", "fwq", "(", ")", "fwlp", "fwrp", "bslash", "["}),
          Lit(<<"{", "}", "lbk", "rbk", "<", ">">>), Plus(Cls({"]"}))>>)

\* r"(或者是|或者|或是|或则|还是|\\bor\\b|\\|)", re.IGNORECASE: the last three
\* alternatives are the literal \bor\b, a backslash, and the empty pattern
KwOrPattern ==
    Alt(<<Lit(<<"huo", "zhe", "shi">>), Lit(<<"huo", "zhe">>), Lit(<<"huo", "shi">>),
            Lit(<<"huo", "ze">>), Lit(<<"hai", "shi">>),
          LitI(<<"bslash", "b", "o", "r", "bslash", "b">>), Lit(<<"bslash">>), Empty>>)

\* r"(并且|而且|同时|以及|和|且|\\band\\b|&)", re.IGNORECASE
KwAndPattern ==
    Alt(<<Lit(<<"bing", "qie">>), Lit(<<"er", "qie">>), Lit(<<"tong", "shi2">>),
            Lit(<<"yi", "ji3">>), Lit(<<"he">>), Lit(<<"qie">>),
          LitI(<<"bslash", "b", "a", "n", "d", "bslash", "b">>), Lit(<<"&">>)>>)

stop_tokens ==
    {OR_MARK, AND_MARK} \cup
    Range(<<<<"shang", "chuan">>, <<"pai", "she">>, <<"she", "yu">>, <<"xiang", "ce">>,
            <<"zhuan", "ji2">>, <<"wen", "jian4", "jia">>, <<"xiang", "ji">>, <<"jing4",
            "tou">>, <<"ji", "xing">>, <<"fen", "bian", "lv">>, <<"xiang4", "su">>, <<"da",
            "xiao">>, <<"rong", "liang">>, <<"wen", "jian4", "da", "xiao">>, <<"xiao",
            "yu">>, <<"da", "yu">>, <<"yi", "shang">>, <<"yi", "xia">>, <<"bu", "chao",
            "guo">>, <<"bu", "shao", "yu">>, <<"zhi", "shao">>, <<"zui", "duo">>,
            <<"zhao4", "pian">>, <<"tu", "pian">>, <<"bang", "wo">>, <<"wo", "yao">>,
            <<"zhao3">>, <<"sou", "suo3">>, <<"jian3", "suo3">>>>)

\* the patterns of _looks_structured_token; "\\b", "\\s", "\\d" in the raw
\* strings are a backslash followed by the letter
StructuredTokenPatterns ==
    <<DatePattern,
      \* r"\d+(?:\.\d+)?\s*(?:k|kb|m|mb|g|gb|兆)\\b"
      Cat(<<NumPattern, Star(Cls(Spaces)), UnitPattern, LitI(<<"bslash", "b">>)>>),
      \* r"\d{3,5}\\s*[xX×*]\\s*\\d{3,5}"
      Cat(<<Rep(Cls(Digits), 3, 5), Cls({"bslash"}), Star(Cls({"s"})), TimesSign,
            Cls({"bslash"}), Star(Cls({"s"})), Cls({"bslash"}), Rep(Cls({"d"}), 3, 5)>>),
      \* r"\d{3,8}\\s*(?:像素|px)\\b", re.IGNORECASE
      Cat(<<Rep(Cls(Digits), 3, 8), Cls({"bslash"}), Star(Cls({"s", "S"})),
            WordsI(<<<<"xiang4", "su">>, <<"p", "x">>>>), LitI(<<"bslash", "b">>)>>)>>

_looks_structured_token(tok) ==
    IF tok = <<>> THEN TRUE
    ELSE Eager(LowerText(tok), LAMBDA low :
         \/ tok \in stop_tokens
         \/ low \in stop_tokens
         \/ \E k \in 1..Len(StructuredTokenPatterns) :
               ReFound(StructuredTokenPatterns[k], tok)
         \* r"\\b\\d{3,4}p\\b" on the lowered token
         \/ ReFound(Cat(<<Lit(<<"bslash", "b", "bslash">>), Rep(Cls({"d"}), 3, 4),
                          Lit(<<"p", "bslash", "b">>)>>), low))

\* tok.strip(quotes), a leading "#" dropped, tok.strip()
KwTrim(tok) ==
    Eager(Strip(tok, QuoteChars), LAMBDA a :
        Strip(IF a # <<>> /\ Head(a) = "#" THEN Tail(a) ELSE a, Spaces))

\* the loop over raw_tokens: st = [groups, and_used]
KwStep(tok, excl, st) ==
    IF tok = OR_MARK
    THEN (IF st.groups[Len(st.groups)] # <<>>
          THEN [st EXCEPT !.groups = Append(@, <<>>)] ELSE st)
    ELSE IF tok = AND_MARK THEN [st EXCEPT !.and_used = TRUE]
    ELSE Eager(KwTrim(tok), LAMBDA t2 :
            IF t2 = <<>> \/ t2 \in excl \/ _looks_structured_token(t2) THEN st
            ELSE [st EXCEPT !.groups[Len(st.groups)] = Append(@, t2)])

\* the loop over toks[lo..hi]
RECURSIVE KwWalk(_, _, _, _, _)
KwWalk(toks, excl, st, lo, hi) ==
    IF lo > hi THEN st
    ELSE IF lo = hi THEN KwStep(toks[lo], excl, st)
    ELSE Eager((lo + hi) \div 2, LAMBDA mid :
         Eager(KwWalk(toks, excl, st, lo, mid), LAMBDA a :
            KwWalk(toks, excl, a, mid + 1, hi)))

\* the concatenation of a list of lists
Flatten(gs) == Join(gs, <<>>)

_nl_extract_keyword_groups(raw, exclude_terms) ==
    IF raw = <<>> THEN <<>>
    ELSE
    Eager({Strip(x, Spaces) : x \in exclude_terms} \ {<<>>}, LAMBDA excl :
    Eager(SplitWs(ReSub(KwAndPattern, <<" ">> \o AND_MARK \o <<" ">>,
                    ReSub(KwOrPattern, <<" ">> \o OR_MARK \o <<" ">>,
                        ReSub(KwPunctPattern, <<" ">>, raw)))), LAMBDA raw_tokens :
        IF raw_tokens = <<>> THEN <<>>
        ELSE
        Eager(KwWalk(raw_tokens, excl, [groups |-> <<<<>>>>, and_used |-> FALSE],
                     1, Len(raw_tokens)), LAMBDA walked :
        Eager(SelectSeq(([i \in 1..Len(walked.groups) |-> Uniq(walked.groups[i])] \o <<>>),
                        LAMBDA g : g # <<>>), LAMBDA cleaned :
            IF cleaned = <<>> THEN <<>>
            ELSE IF ~walked.and_used
                 THEN Eager(Uniq(Flatten(cleaned)), LAMBDA flat :
                        ([i \in 1..Len(flat) |-> <<flat[i]>>] \o <<>>))
                 ELSE cleaned))))

(***************************************************************************)
(* _heuristic_keywords_from_text                                           *)
(***************************************************************************)
\* (?:在|于|从)?\s*(?:名为|叫做|叫|名称为|标题为)?\s*[“"'‘’]?\s*<album>\s*[”"'‘’]?\s*(?:的)?\s*
\* (?:相册|专辑|文件夹)(?:中|里|里面)?
AlbumPhrasePattern(album) ==
    Cat(<<Opt(Words(<<<<"zai">>, <<"yu">>, <<"cong">>>>)), Star(Cls(Spaces)),
          Opt(Words(<<<<"ming", "wei">>, <<"jiao", "zuo">>, <<"jiao">>, <<"ming", "cheng",
                  "wei">>, <<"biao", "ti", "wei">>>>)), Star(Cls(Spaces)),
          Opt(Cls({"ldq", "dq", "'", "lsq", "rsq"})), Star(Cls(Spaces)), Lit(album),
          Star(Cls(Spaces)), Opt(Cls({"rdq", "dq", "'", "lsq", "rsq"})),
          Star(Cls(Spaces)), Opt(Lit(<<"de">>)), Star(Cls(Spaces)), AlbumNoun,
          Opt(Words(<<<<"zhong">>, <<"li">>, <<"li", "mian">>>>))>>)

\* \d+(?:\.\d+)?\s*(?:k|..|兆)\s*(?:-|~|到|至|—|–)\s*\d+(?:\.\d+)?\s*(?:k|..|兆)
SizeRangeFragment ==
    Cat(<<NumPattern, Star(Cls(Spaces)), UnitPattern, Star(Cls(Spaces)), RangeConnective,
          Star(Cls(Spaces)), NumPattern, Star(Cls(Spaces)), UnitPattern>>)

\* the words cut out of the text, one after the other
FillerWords ==
    <<<<"bang", "wo">>, <<"qing">>, <<"ma", "fan2">>, <<"wo", "yao">>, <<"wo", "xiang3">>,
            <<"wo", "xu", "yao">>, <<"neng", "bu", "neng">>, <<"ke", "yi">>, <<"bang",
            "mang">>, <<"suo", "you3">>, <<"quan", "bu4">>, <<"bing", "qie">>, <<"er",
            "qie">>, <<"tong", "shi2">>, <<"yi", "ji3">>, <<"huo", "zhe">>, <<"huo",
            "shi">>, <<"hai", "shi">>, <<"zhao3">>, <<"cha", "zhao3">>, <<"sou", "suo3">>,
            <<"jian3", "suo3">>, <<"lie", "chu">>, <<"xian", "shi4">>, <<"kan", "kan">>,
            <<"yi1", "xia">>, <<"xiang", "guan">>, <<"xiang", "ying">>, <<"bao", "han">>,
            <<"zhu", "ti">>, <<"zhi1", "jian">>, <<"qu", "jian">>, <<"fan", "wei2">>,
            <<"yi", "nei">>, <<"de">>, <<"tu", "pian">>, <<"zhao4", "pian">>, <<"xiang",
            "pian">>, <<"yi1", "xia", "zi3">>>>

\* [，。,.；;:：!！?？()（）\[\]{}《》<>]+
PunctPattern ==
    Plus(Cls({"fwcomma", "fwstop", ",", ".", "fwsemi", ";", ":", "fwcolon", "!", "fwbang",
              "?", "fwq", "(", ")", "fwlp", "fwrp", "[", "]", "{", "}", "lbk", "rbk",
              "<", ">"}))

AlbumSuffixes == <<<<"xiang", "ce", "zhong">>, <<"xiang", "ce", "li">>, <<"zhuan", "ji2",
        "zhong">>, <<"zhuan", "ji2", "li">>, <<"wen", "jian4", "jia", "zhong">>, <<"wen",
        "jian4", "jia", "li">>>>

EndsWith(s, w) == Len(w) <= Len(s) /\ SubSeq(s, Len(s) - Len(w) + 1, Len(s)) = w

\* one turn of the loop over tokens
HeurStep(tok0, st, max_terms) ==
    Eager(Strip(Strip(tok0, QuoteChars \cup {" "}), Spaces), LAMBDA tok :
        IF tok = <<>> \/ _is_noise_keyword(tok)
           \/ \E k \in 1..Len(AlbumSuffixes) : EndsWith(tok, AlbumSuffixes[k])
        THEN st
        ELSE Eager(IF Member(st.uniq, tok) THEN st.uniq ELSE Append(st.uniq, tok),
                   LAMBDA u2 : [uniq |-> u2, done |-> Len(u2) >= max_terms]))

\* the loop over toks[lo..hi], left at the break
RECURSIVE HeurWalk(_, _, _, _, _)
HeurWalk(toks, st, max_terms, lo, hi) ==
    IF lo > hi \/ st.done THEN st
    ELSE IF lo = hi THEN HeurStep(toks[lo], st, max_terms)
    ELSE Eager((lo + hi) \div 2, LAMBDA mid :
         Eager(HeurWalk(toks, st, max_terms, lo, mid), LAMBDA a :
            IF a.done THEN a ELSE HeurWalk(toks, a, max_terms, mid + 1, hi)))

\* re.sub(ps[lo], " ", ...) up to re.sub(ps[hi], " ", ...), one after the other
RECURSIVE SubAll(_, _, _, _)
SubAll(t, ps, lo, hi) ==
    IF lo > hi THEN t
    ELSE IF lo = hi THEN ReSub(ps[lo], <<" ">>, t)
    ELSE Eager((lo + hi) \div 2, LAMBDA mid :
         Eager(SubAll(t, ps, lo, mid), LAMBDA a :
            IF a = <<>> THEN a ELSE SubAll(a, ps, mid + 1, hi)))

\* what is cut out of the text, in this order: the structured fragments, the
\* filler words, punctuation, and runs of whitespace
HeurCuts ==
    <<DatePattern, SizeRangeFragment,
      Cat(<<NumPattern, Star(Cls(Spaces)), UnitPattern, WordB>>),
      Cat(<<Rep(Cls(Digits), 3, 5), Star(Cls(Spaces)), TimesSign, Star(Cls(Spaces)),
            Rep(Cls(Digits), 3, 5)>>),
      Cat(<<Rep(Cls(Digits), 3, 4), Cls({"p", "P"}), WordB>>)>>
    \o ([i \in 1..Len(FillerWords) |-> Lit(FillerWords[i])] \o <<>>)
    \o <<PunctPattern, Plus(Cls(Spaces))>>

_heuristic_keywords_from_text(raw, max_terms) ==
    Eager(_normalize_query_text(raw), LAMBDA t0 :
        IF Strip(t0, Spaces) = <<>> THEN <<>>
        ELSE
        Eager(IF ReFound(AlbumNoun, t0) THEN _ai_parse_album(t0) ELSE <<>>, LAMBDA album :
        Eager(IF album # <<>> THEN <<AlbumPhrasePattern(album)>> \o HeurCuts ELSE HeurCuts,
              LAMBDA cuts :
        Eager(Strip(SubAll(t0, cuts, 1, Len(cuts)), Spaces), LAMBDA t :
            IF t = <<>> THEN <<>>
            ELSE Eager(ReFindAll(Rep(Cls(NameChars), 2, 20), t), LAMBDA tokens :
                    IF tokens = <<>> THEN <<>>
                    ELSE HeurWalk(tokens, [uniq |-> <<>>, done |-> FALSE], max_terms,
                                  1, Len(tokens)).uniq)))))

(***************************************************************************)
(* _split_or_segments                                                      *)
(***************************************************************************)
\* (?:或者是|或者|或是|或则|还是|或|\bor\b|\|), re.IGNORECASE
SplitPattern ==
    Alt(<<OrWords, Cat(<<WordB, LitI(<<"o", "r">>), WordB>>), Lit(<<"|">>)>>)

_split_or_segments(raw) ==
    IF raw = <<>> THEN <<>>
    ELSE
    Eager(_normalize_query_text(raw), LAMBDA t :
    Eager(SelectSeq(ReSplit(SplitPattern, t), LAMBDA p : Strip(p, Spaces) # <<>>),
          LAMBDA parts :
    Eager(([i \in 1..Len(parts) |->
              Strip(parts[i], {" ", "fwcomma", "fwstop", ";", "fwsemi", ":",
                               "fwcolon", "nl", "tab"})] \o <<>>), LAMBDA cleaned :
        IF cleaned # <<>> THEN cleaned ELSE <<Strip(t, Spaces)>>)))

(***************************************************************************)
(* SQL conditions.  A condition is a tree; a row satisfies it as the        *)
(* database decides the WHERE clause, a NULL operand making the comparison  *)
(* fail.                                                                   *)
(***************************************************************************)
\* sqlalchemy's and_, or_
and_(cs) == [k |-> "and", cs |-> cs]

or_(cs) == [k |-> "or", cs |-> cs]

\* column >= v, column <= v, column IS NOT NULL
Ge(col, v) == [k |-> "ge", col |-> col, v |-> v]

Le(col, v) == [k |-> "le", col |-> col, v |-> v]

IsNotNull(col) == [k |-> "notnull", col |-> col]

\* Image.id == -1: no row has this id
NoRow == [k |-> "norow"]

\* no filter added
NoCond == [k |-> "nocond"]

\* column ILIKE '%term%': "%" in the term stands for any text, "_" for any character
LikePattern(term) ==
    Cat(([i \in 1..Len(term) |->
            IF term[i] = "%" THEN Star(NCls({}))
            ELSE IF term[i] = "_" THEN NCls({})
            ELSE Cls({Lower(term[i])})] \o <<>>))

\* a term without "%" and "_" is found as it is written
ILike(val, term) ==
    /\ val # None
    /\ IF \E i \in 1..Len(term) : term[i] \in {"%", "_"}
       THEN ReFound(LikePattern(term), LowerText(val))
       ELSE Contains(LowerText(val), LowerText(term))

\* the value of a column, None for NULL
ColValue(img, col) ==
    CASE col = "size" -> Some(img.size)
      [] col = "width" -> img.width
      [] col = "height" -> img.height
      [] col = "taken_at" -> IF img.taken_at = None THEN None ELSE Some(img.taken_at)
      [] col = "created_at" -> Some(img.created_at)
      \* coalesce(width, 0) * coalesce(height, 0)
      [] col = "pixels" -> Some((IF img.width = None THEN 0 ELSE img.width[1])
                                * (IF img.height = None THEN 0 ELSE img.height[1]))

\* a <= b in column col: numbers, or datetimes
ValLe(col, a, b) == IF col \in {"taken_at", "created_at"} THEN DtLe(a, b) ELSE a <= b

\* does row img satisfy condition c, for the requesting user uid
RECURSIVE Satisfies(_, _, _)
Satisfies(img, c, uid) ==
    CASE c.k = "nocond" -> TRUE
      [] c.k \in {"norow", "nothing"} -> FALSE
      [] c.k = "and" -> \A i \in 1..Len(c.cs) : Satisfies(img, c.cs[i], uid)
      [] c.k = "or" -> \E i \in 1..Len(c.cs) : Satisfies(img, c.cs[i], uid)
      [] c.k = "ge" -> LET v == ColValue(img, c.col) IN v # None /\ ValLe(c.col, c.v, v[1])
      [] c.k = "le" -> LET v == ColValue(img, c.col) IN v # None /\ ValLe(c.col, v[1], c.v)
      [] c.k = "notnull" -> ColValue(img, c.col) # None
      [] c.k = "ilike" -> ILike(img[c.col], c.term)
      \* Image.tags.any(Tag.name.ilike(like))
      [] c.k = "tag" -> \E t \in img.tags : ILike(t, c.term)
      \* Image.albums.any(and_(Album.user_id == user_id, Album.title.ilike(like)))
      [] c.k = "album" ->
           \E a \in img.albums : a.user_id = uid /\ ILike(a.title, c.term)

ColLike(col, term) == [k |-> "ilike", col |-> col, term |-> term]

(***************************************************************************)
(* _keyword_term_condition, _build_keyword_groups_condition                *)
(***************************************************************************)
\* None, or the condition of one keyword term
_keyword_term_condition(term0) ==
    Eager(Strip(term0, Spaces), LAMBDA term :
        IF term = <<>> THEN None
        ELSE Some(or_(<<ColLike("name", term), ColLike("description", term),
                        ColLike("original_name", term), ColLike("folder", term),
                        [k |-> "tag", term |-> term], [k |-> "album", term |-> term],
                        ColLike("caption", term), ColLike("labels", term)>>)))

\* the conditions that are not None, unwrapped
Present(opts) ==
    Eager(SelectSeq(opts, LAMBDA o : o # None), LAMBDA some :
        ([i \in 1..Len(some) |-> some[i][1]] \o <<>>))

_build_keyword_groups_condition(keyword_groups) ==
    IF keyword_groups = <<>> THEN None
    ELSE
    \* and_terms of every group, the groups without a term skipped
    Eager(SelectSeq(([g \in 1..Len(keyword_groups) |->
                        Present(([i \in 1..Len(keyword_groups[g]) |->
                                    _keyword_term_condition(keyword_groups[g][i])] \o <<>>))]
                     \o <<>>), LAMBDA and_terms : and_terms # <<>>), LAMBDA with_terms :
    Eager(([i \in 1..Len(with_terms) |->
              IF Len(with_terms[i]) > 1 THEN and_(with_terms[i]) ELSE with_terms[i][1]]
           \o <<>>), LAMBDA or_conds :
        IF or_conds = <<>> THEN None
        ELSE IF Len(or_conds) > 1 THEN Some(or_(or_conds))
        ELSE Some(or_conds[1])))

(***************************************************************************)
(* _ai_build_clause_condition                                              *)
(***************************************************************************)
_looks_like_date(s) == ReFound(DatePattern, s)

\* (\d+(?:\.\d+)?\s*(?:k|kb|m|mb|g|gb|兆)\s*(?:-|~|到|至|—|–)\s*\d+(?:\.\d+)?\s*(?:k|kb|m|mb|g|gb|兆))
\* |(\d+(?:\.\d+)?\s*(?:k|kb|m|mb|g|gb|兆)), re.IGNORECASE
LooseUnit == WordsI(<<<<"k">>, <<"k", "b">>, <<"m">>, <<"m", "b">>, <<"g">>, <<"g", "b">>,
        <<"zhao">>>>)

LooseSize == Cat(<<NumPattern, Star(Cls(Spaces)), LooseUnit>>)

_looks_like_size(s) ==
    ReFound(Alt(<<Cat(<<LooseSize, Star(Cls(Spaces)), Words(<<<<"-">>, <<"~">>, <<"dao">>,
            <<"zhi">>, <<"emdash">>, <<"endash">>>>),
                        Star(Cls(Spaces)), LooseSize>>),
                  LooseSize>>), s)

_looks_like_resolution(s) ==
    \/ ReFound(Cat(<<Rep(Cls(Digits), 3, 5), Star(Cls(Spaces)), Cls({"x", "X", "times",
            "*"}),
                     Star(Cls(Spaces)), Rep(Cls(Digits), 3, 5)>>), s)
    \/ ReFound(Cat(<<Rep(Cls(Digits), 3, 4), Cls({"p", "P"}), WordB>>), s)

\* the keywords kept by the loop over `keywords`
\* a filter that would keep every hint that is not empty
valid_keywords_any(keywords) ==
    Uniq(SelectSeq(([i \in 1..Len(keywords) |-> Strip(keywords[i], Spaces)] \o <<>>),
                   LAMBDA kw : kw # <<>>))

valid_keywords(keywords) ==
    Uniq(SelectSeq(([i \in 1..Len(keywords) |-> Strip(keywords[i], Spaces)] \o <<>>),
                   LAMBDA kw :
                /\ kw # <<>>
                /\ Len(kw) <= 40
                /\ ~_is_noise_keyword(kw)
                /\ ~(_looks_like_date(kw) \/ _looks_like_size(kw)
                     \/ _looks_like_resolution(kw))))

\* folder or an album of the user carries the title
AlbumCond(title) ==
    or_(<<ColLike("folder", title), [k |-> "album", term |-> title],
          [k |-> "album", term |-> title]>>)

\* the conditions on size, the two bounds as they were parsed
SizeCondsAsParsed(size) ==
    (IF size.min # None THEN <<Ge("size", size.min[1])>> ELSE <<>>)
    \o (IF size.max # None THEN <<Le("size", size.max[1])>> ELSE <<>>)

\* the conditions on size, with a single value widened to a range around it
SizeConds(size) ==
    Eager(IF size.min # None /\ size.max # None /\ size.min = size.max
          THEN Eager(IF size.min[1] \div 10 > 500 * 1024 THEN size.min[1] \div 10
                     ELSE 500 * 1024, LAMBDA tol :
                    [min |-> Some(IF size.min[1] - tol > 0 THEN size.min[1] - tol ELSE 0),
                     max |-> Some(size.max[1] + tol)])
          ELSE size, LAMBDA b :
        (IF b.min # None THEN <<Ge("size", b.min[1])>> ELSE <<>>)
        \o (IF b.max # None THEN <<Le("size", b.max[1])>> ELSE <<>>))

\* the conditions on resolution
ResConds(res_info) ==
    (IF res_info.pixels # None /\ res_info.pixels # Some(0)
     THEN <<Ge("pixels", res_info.pixels[1])>> ELSE <<>>)
    \o (IF res_info.width # None /\ res_info.width # Some(0)
        THEN <<Ge("width", res_info.width[1])>> ELSE <<>>)
    \o (IF res_info.height # None /\ res_info.height # Some(0)
        THEN <<Ge("height", res_info.height[1])>> ELSE <<>>)

CameraCond(camera_kw) == or_(<<ColLike("camera", camera_kw), ColLike("lens", camera_kw)>>)

\* the structured conditions of a clause
structured_conds(raw) ==
    Eager(_normalize_query_text(raw), LAMBDA t :
    Eager(_ai_parse_date_range(t), LAMBDA date :
    Eager(_ai_parse_size(t), LAMBDA size :
    Eager(_ai_parse_resolution(t), LAMBDA res_info :
    Eager(_ai_parse_album(t), LAMBDA album_title :
    Eager(_ai_parse_camera_keyword(t), LAMBDA camera_kw :
        (IF album_title # <<>> THEN <<AlbumCond(album_title)>> ELSE <<>>)
        \o (IF date.start # None /\ date.end # None
            THEN <<and_(<<Ge(IF date.field = "taken" THEN "taken_at" ELSE "created_at",
                             date.start),
                          Le(IF date.field = "taken" THEN "taken_at" ELSE "created_at",
                             date.end)>>)>>
            ELSE <<>>)
        \o SizeConds(size)
        \o ResConds(res_info)
        \o (IF camera_kw # <<>> THEN <<CameraCond(camera_kw)>> ELSE <<>>)))))))

\* the keyword condition of a clause: any of the kept keywords
keyword_cond(raw, keywords) ==
    Eager(_ai_parse_album(_normalize_query_text(raw)), LAMBDA album_title :
    Eager(valid_keywords(keywords), LAMBDA valid :
    Eager(IF album_title # <<>>
          THEN SelectSeq(valid, LAMBDA kw : Strip(kw, Spaces) # album_title)
          ELSE valid, LAMBDA kept :
    Eager(Present(([i \in 1..Len(kept) |-> _keyword_term_condition(kept[i])] \o <<>>)),
          LAMBDA conds :
        IF conds # <<>> THEN Some(or_(conds)) ELSE None))))

\* a builder that would join the two parts of a clause by OR
_ai_build_clause_condition_or(raw, keywords) ==
    Eager(structured_conds(raw), LAMBDA sc :
    Eager(keyword_cond(raw, keywords), LAMBDA kc :
        IF sc # <<>> /\ kc # None THEN Some(or_(<<and_(sc), kc[1]>>))
        ELSE IF sc # <<>> THEN Some(and_(sc))
        ELSE IF kc # None THEN kc
        ELSE None))

\* None, or the condition of one segment
_ai_build_clause_condition(raw, keywords) ==
    Eager(structured_conds(raw), LAMBDA sc :
    Eager(keyword_cond(raw, keywords), LAMBDA kc :
        IF sc # <<>> /\ kc # None THEN Some(and_(<<and_(sc), kc[1]>>))
        ELSE IF sc # <<>> THEN Some(and_(sc))
        ELSE IF kc # None THEN kc
        ELSE None))

(***************************************************************************)
(* The catalog and the queries on it                                       *)
(***************************************************************************)
\* a query that would select the rows in the recycle bin too
_query_user_images_all(uid, include_deleted) ==
    {i \in DOMAIN images : images[i].user_id = uid}

\* the query without filter_by(user_id=user_id)
_query_user_images_any_user(uid, include_deleted) ==
    {i \in DOMAIN images : include_deleted \/ images[i].deleted_at = None}

\* the rows of `images` that the query of user uid selects
_query_user_images(uid, include_deleted) ==
    {i \in DOMAIN images :
        images[i].user_id = uid /\ (include_deleted \/ images[i].deleted_at = None)}

\* the rows of ids, ordered: the row with k - 1 rows before it comes k-th
OrderBy(ids, Before(_, _)) ==
    ([k \in 1..Cardinality(ids) |->
        CHOOSE i \in ids : Cardinality({j \in ids : Before(j, i)}) = k - 1] \o <<>>)

\* Image.created_at.desc(); the rows of one upload time come by id
uploaded_desc(i, j) ==
    \/ DtLt(images[j].created_at, images[i].created_at)
    \/ images[j].created_at = images[i].created_at /\ i < j

\* func.coalesce(Image.taken_at, Image.created_at).desc()
captured(i) == IF images[i].taken_at # None THEN images[i].taken_at ELSE images[i].created_at

captured_desc(i, j) == DtLt(captured(j),
        captured(i)) \/ (captured(j) = captured(i) /\ i < j)

Where(ids, cond, uid) == {i \in ids : Satisfies(images[i], cond, uid)}

(***************************************************************************)
(* _ai_advanced_search                                                     *)
(***************************************************************************)
\* return [] without a query
Nothing == [k |-> "nothing"]

\* the keywords of one segment: the heuristic ones, then the hints found in it
seg_kws(seg, keywords) ==
    Eager(_heuristic_keywords_from_text(seg, 6), LAMBDA heur :
        heur \o Uniq(SelectSeq(([i \in 1..Len(keywords) |-> Strip(keywords[i], Spaces)]
                                \o <<>>), LAMBDA kw :
                        kw # <<>> /\ Contains(seg, kw) /\ ~Member(heur, kw))))

\* the condition the query is filtered by
advanced_cond(raw, keywords) ==
    \* the clauses: the segments with their own keywords, or the whole query
    Eager(IF _ai_detect_logic_mode(raw) = "or"
          THEN Eager(_split_or_segments(raw), LAMBDA segs :
                  ([i \in 1..Len(segs) |->
                      Eager(seg_kws(segs[i], keywords), LAMBDA kws :
                          [raw |-> segs[i], keywords |-> kws, or |-> TRUE])] \o <<>>))
          ELSE <<[raw |-> raw, keywords |-> keywords, or |-> FALSE]>>, LAMBDA clauses :
    Eager(([i \in 1..Len(clauses) |->
              _ai_build_clause_condition(clauses[i].raw, clauses[i].keywords)] \o <<>>),
          LAMBDA conds :
        IF clauses # <<>> /\ ~clauses[1].or
        THEN (IF conds[1] # None THEN conds[1][1] ELSE NoCond)
        ELSE Eager(Present(conds), LAMBDA clause_conds :
                IF clause_conds # <<>> THEN or_(clause_conds) ELSE Nothing)))

\* a search that would return every row of the user when no segment gives a clause
advanced_rows_unfiltered(cond, uid) ==
    IF cond.k = "nothing" THEN OrderBy(_query_user_images(uid, FALSE), uploaded_desc)
    ELSE OrderBy(Where(_query_user_images(uid, FALSE), cond, uid), uploaded_desc)

\* the ids of the rows found, most recent upload first
advanced_rows(cond, uid) ==
    IF cond.k = "nothing" THEN <<>>
    ELSE OrderBy(Where(_query_user_images(uid, FALSE), cond, uid), uploaded_desc)

\* query.limit(limit) when limit > 0; limit is None or <<n>>
advanced_items(rows, limit) ==
    IF limit = None \/ limit[1] <= 0 THEN rows
    ELSE SubSeq(rows, 1, IF limit[1] < Len(rows) THEN limit[1] ELSE Len(rows))

(***************************************************************************)
(* ai_chat_search: the keywords handed to _ai_advanced_search               *)
(***************************************************************************)
\* keywords_ai is what the language model answered
chat_keywords(user_text, keywords_ai) ==
    Eager(_heuristic_keywords_from_text(user_text, 6) \o keywords_ai, LAMBDA both :
    Eager(Uniq(SelectSeq(([i \in 1..Len(both) |-> Strip(both[i], Spaces)] \o <<>>),
                         LAMBDA kw :
                        kw # <<>> /\ Len(kw) <= 40 /\ ~_is_noise_keyword(kw))),
          LAMBDA kept :
        IF kept = <<>> THEN <<Strip(user_text, Spaces)>>
        ELSE SubSeq(kept, 1, IF Len(kept) < 8 THEN Len(kept) ELSE 8)))

(***************************************************************************)
(* search_images: the condition of the keyword parameter                   *)
(***************************************************************************)
\* the terms removed from the keywords: the album title and the camera phrase
exclude_terms(keyword) ==
    Eager(_ai_parse_album(keyword), LAMBDA inferred_album :
    Eager(_ai_parse_camera_keyword(keyword), LAMBDA inferred_camera :
        (IF inferred_album # <<>> THEN {inferred_album} ELSE {})
        \cup (IF inferred_camera # <<>> THEN {inferred_camera} ELSE {})))

\* the structured conditions inferred from the keyword parameter
search_structured_conds(keyword) ==
    Eager(_ai_parse_album(keyword), LAMBDA inferred_album :
    Eager(_ai_parse_camera_keyword(keyword), LAMBDA inferred_camera :
    Eager(_ai_parse_date_range(keyword), LAMBDA date :
    Eager(_ai_parse_size(keyword), LAMBDA size :
    Eager(_ai_parse_resolution(keyword), LAMBDA res_info :
        (IF inferred_album # <<>>
         THEN <<or_(<<[k |-> "album", term |-> inferred_album],
                      ColLike("folder", inferred_album)>>)>>
         ELSE <<>>)
        \o (IF inferred_camera # <<>> THEN <<CameraCond(inferred_camera)>> ELSE <<>>)
        \o (IF date.start # None /\ date.end # None
            THEN (IF date.field = "taken"
                  THEN <<IsNotNull("taken_at"), Ge("taken_at", date.start),
                         Le("taken_at", date.end)>>
                  ELSE <<Ge("created_at", date.start), Le("created_at", date.end)>>)
            ELSE <<>>)
        \o SizeConds(size)
        \o ResConds(res_info))))))

\* the filter of the keyword parameter, keyword not empty
search_keyword_cond(keyword) ==
    Eager(search_structured_conds(keyword), LAMBDA sc :
    Eager(_build_keyword_groups_condition(
              _nl_extract_keyword_groups(keyword, exclude_terms(keyword))), LAMBDA kc :
        IF sc # <<>> /\ kc # None
        THEN (IF _ai_detect_logic_mode(keyword) = "or"
              THEN or_(<<and_(sc), kc[1]>>)
              ELSE and_(<<and_(sc), kc[1]>>))
        ELSE IF sc # <<>> THEN and_(sc)
        ELSE IF kc # None THEN kc[1]
        ELSE NoRow))

\* the whole filter of a request that passes keyword, page and page_size only:
\* size_max_mb is 200 when the request has none
search_cond(raw) ==
    Eager(Strip(raw, Spaces), LAMBDA keyword :
        IF keyword # <<>>
        THEN and_(<<search_keyword_cond(keyword), Le("size", 200 * 1024 * 1024)>>)
        ELSE and_(<<Le("size", 200 * 1024 * 1024)>>))

\* query.paginate(page, per_page, error_out=False).items
page_items(sorted, page, page_size) ==
    SubSeq(sorted, (page - 1) * page_size + 1,
           IF page * page_size < Len(sorted) THEN page * page_size ELSE Len(sorted))

(***************************************************************************)
(* The requests                                                            *)
(***************************************************************************)
\* the number of vocabulary words in a generated query
MaxWords == 2

\* the largest limit, page and page size a request asks for
MaxLimit == 1

MaxPage == 2

MaxPageSize == 2

Users == {1, 2}

Vocabulary == <<<<"mao">>, <<"ri", "luo">>, <<"huo", "zhe">>, <<"cha", "zhao3">>>>

\* the queries of at most n words of the vocabulary, joined by one space
RECURSIVE Sentences(_)
Sentences(n) ==
    IF n = 0 THEN {<<>>}
    ELSE Sentences(n - 1)
         \cup {IF s = <<>> THEN Vocabulary[w] ELSE s \o <<" ">> \o Vocabulary[w] :
                  s \in Sentences(n - 1), w \in 1..Len(Vocabulary)}

\* the queries of the specification's scenarios
Scenarios ==
    {<<"bang", "wo", " ", "cha", "zhao3">>, <<"qing", "bang", "wo", "zhao3", "yi1", "xia",
            "suo", "you3", "de", "zhao4", "pian">>, <<"4", "K", " ", "huo", "zhe", " ",
            "ri", "luo">>, <<"4", "K", " ", "ri", "luo", " ", "huo", "zhe", " ", "mao">>,
     <<"4", "0", "0", "K", "B", "-", "1", "M", "B", " ", "zhi1", "jian", " ", "mao">>,
             <<"2", "0", "2", "4", "-", "0", "1", "-", "0", "1", " ", "dao", " ", "2", "0",
             "2", "4", "-", "0", "1", "-", "3", "1", " ", "pai", "she", " ", "feng",
             "jing">>,
     <<"ming", "wei", "dq", "feng", "jing", "dq", "de", "xiang", "ce">>, <<"ming", "wei",
             "dq", "feng", "jing", "dq", "de", "xiang", "ce", " ", "mao">>, <<"mao", " ",
             "xiang", "ce">>, <<"4", "K">>, <<"1", "0", "8", "0", "p", " ", "bing", "qie",
             " ", "ri", "luo">>}

\* queries of two segments: 猫 或者 查找, where the second segment is noise only,
\* and 查找 或者 帮我, where both are
OrQueries ==
    {<<"mao", " ", "huo", "zhe", " ", "cha", "zhao3">>,
     <<"cha", "zhao3", " ", "huo", "zhe", " ", "bang", "wo">>}

Queries == Scenarios \cup Sentences(MaxWords) \cup OrQueries

\* the keyword hints a caller passes, or the language model answers
HintLists == {<<>>, <<<<"cha", "zhao3">>>>, <<<<"ri", "luo">>>>, <<<<"feng", "jing">>,
        <<"mao">>>>}

\* what datetime.utcnow() returns during a request
Clock == {<<2025, 1, 1, 0, 0, 0, 0>>, <<2025, 1, 2, 8, 30, 0, 0>>}

Row(id, uid, name, size, width, height, taken_at, created_at, tags, albums, deleted_at) ==
    [id |-> id, user_id |-> uid, name |-> name, description |-> None,
     original_name |-> name \o <<".", "j", "p", "g">>, folder |-> None, tags |-> tags,
             albums |-> albums,
     caption |-> None, labels |-> None, camera |-> None, lens |-> None, size |-> size,
     width |-> width, height |-> height, taken_at |-> taken_at, created_at |-> created_at,
     updated_at |-> created_at, deleted_at |-> deleted_at]

\* the catalog: rows of two users, one of them in the recycle bin
Catalog ==
    <<Row(1, 1, <<"mao">>, 500 * 1024, Some(800), Some(600), <<2024, 1, 15, 10, 0, 0, 0>>,
          <<2024, 2, 1, 9, 0, 0, 0>>, {}, {}, None),
      Row(2, 1, <<"ri", "luo">>, 3 * 1024 * 1024, Some(3840), Some(2160), None,
          <<2024, 2, 2, 9, 0, 0, 0>>, {<<"ri", "luo">>}, {}, None),
      Row(3, 1, <<"feng", "jing">>, 600 * 1024, None, None, <<2024, 1, 20, 10, 0, 0, 0>>,
          <<2024, 2, 3, 9, 0, 0, 0>>, {}, {[user_id |-> 1, title |-> <<"feng", "jing">>]},
                  None),
      Row(4, 1, <<"mao">>, 500 * 1024, Some(800), Some(600), None,
          <<2024, 2, 4, 9, 0, 0, 0>>, {}, {}, <<2024, 3, 1, 0, 0, 0, 0>>),
      Row(5, 2, <<"mao">>, 500 * 1024, Some(3840), Some(2160), <<2024, 1, 16, 10, 0, 0, 0>>,
          <<2024, 2, 5, 9, 0, 0, 0>>, {<<"ri", "luo">>}, {[user_id |-> 2,
                  title |-> <<"feng", "jing">>]}, None)>>

NoRequest == [user |-> 0, limit |-> None, page |-> 0, page_size |-> 0]

Init ==
    /\ text \in Queries
    /\ hints \in HintLists
    /\ images = Catalog
    /\ disk \in {DOMAIN Catalog, DOMAIN Catalog \ {2}}
    /\ op = "none"
    /\ req = NoRequest
    /\ pred = NoCond
    /\ result = <<>>
    /\ total = 0
    /\ status = 0
    /\ out = None
    /\ today = 0
    /\ retention = 0
    /\ purge = <<>>
    /\ gone = {}
    /\ tagrows = <<>>
    /\ links = {}
    /\ agent = <<>>

\* _ai_advanced_search(uid, text, hints, limit)
AiAdvancedSearch ==
    /\ op = "none"
    /\ \E cond \in {advanced_cond(text, hints)} :
        \E uid \in Users :
            \E rows \in {advanced_rows(cond, uid)} :
                \E limit \in {None} \cup {Some(n) : n \in 0..MaxLimit} :
                    /\ op' = "advanced"
                    /\ req' = [NoRequest EXCEPT !.user = uid, !.limit = limit]
                    /\ pred' = cond
                    /\ result' = advanced_items(rows, limit)
                    /\ total' = Len(result')
                    /\ status' = 200
                    /\ UNCHANGED <<text, hints, images, disk, out, recycleVars, tagVars, agentVars>>

\* POST /ai/chat: the last user message is `text`, the language model answers `hints`
AiChatSearch ==
    /\ op = "none"
    /\ IF text = <<>>
       THEN /\ op' = "chat"
            /\ req' = NoRequest
            /\ pred' = Nothing
            /\ result' = <<>>
            /\ total' = 0
            /\ status' = 400
            /\ UNCHANGED <<text, hints, images, disk, out, recycleVars, tagVars, agentVars>>
       ELSE \E keywords \in {chat_keywords(text, hints)} :
            \E cond \in {advanced_cond(text, keywords)} :
                \E uid \in Users :
                    \E rows \in {advanced_rows(cond, uid)} :
                        \E limit \in {None} \cup {Some(n) : n \in 0..MaxLimit} :
                            /\ op' = "chat"
                            /\ req' = [NoRequest EXCEPT !.user = uid, !.limit = limit]
                            /\ pred' = cond
                            /\ result' = advanced_items(rows, limit)
                            /\ total' = Len(result')
                            /\ status' = 200
                            /\ UNCHANGED <<text, hints, images, disk, out, recycleVars, tagVars, agentVars>>

\* a filter that would mark every row of the page, its file missing or not
_filter_existing_any(items, now, commit_ok) ==
    [i \in DOMAIN images |->
        IF commit_ok /\ Member(items, i) /\ images[i].deleted_at = None
        THEN [images[i] EXCEPT !.deleted_at = now, !.updated_at = now]
        ELSE images[i]]

\* _filter_existing: the rows of the page whose file is missing are marked deleted
\* at `now`; the commit may fail, and is then rolled back
_filter_existing(items, now, commit_ok) ==
    [i \in DOMAIN images |->
        IF commit_ok /\ Member(items, i) /\ i \notin disk /\ images[i].deleted_at = None
        THEN [images[i] EXCEPT !.deleted_at = now, !.updated_at = now]
        ELSE images[i]]

\* GET /search?keyword=text&page=..&page_size=..
SearchImages ==
    /\ op = "none"
    /\ \E cond \in {search_cond(text)} :
        \E uid \in Users :
            \E found \in {Where(_query_user_images(uid, FALSE), cond, uid)} :
                \E sorted \in {OrderBy(found, captured_desc)} :
                    \E page \in 1..MaxPage, page_size \in 1..MaxPageSize,
                       now \in Clock, commit_ok \in BOOLEAN :
                        LET items == page_items(sorted, page, page_size)
                            kept == SelectSeq(items, LAMBDA i : i \in disk)
                        IN  /\ op' = "search"
                            /\ req' = [NoRequest EXCEPT !.user = uid, !.page = page,
                                                        !.page_size = page_size]
                            /\ pred' = cond
                            /\ images' = _filter_existing(items, now, commit_ok)
                            /\ result' = kept
                            /\ total' = IF Cardinality(found) > Len(items) - Len(kept)
                                        THEN Cardinality(found) - (Len(items) - Len(kept))
                                        ELSE 0
                            /\ status' = 200
                            /\ UNCHANGED <<text, hints, disk, out, recycleVars, tagVars, agentVars>>

\* the response is returned, and the server takes the next request; the catalog
\* stays as the request left it
Respond ==
    /\ op # "none"
    /\ op' = "none"
    /\ req' = NoRequest
    /\ pred' = NoCond
    /\ result' = <<>>
    /\ total' = 0
    /\ status' = 0
    /\ UNCHANGED <<text, hints, images, disk, out, recycleVars, tagVars, agentVars>>

Next == AiAdvancedSearch \/ AiChatSearch \/ SearchImages \/ Respond

Spec == Init /\ [][Next]_vars

(***************************************************************************)
(* What the properties speak of                                            *)
(***************************************************************************)
\* a request has been answered with a result
Served == op # "none" /\ status = 200

\* the conditions at the leaves of a condition, from left to right
RECURSIVE Leaves(_)
Leaves(c) ==
    IF c.k \in {"and", "or"}
    THEN Join(([i \in 1..Len(c.cs) |-> Leaves(c.cs[i])] \o <<>>), <<>>)
    ELSE <<c>>

\* the terms of the keyword expression in c: a keyword term is matched against
\* the name column, which no structured condition reads
KeywordTerms(c) ==
    LET ls == Leaves(c)
    IN  {ls[i].term : i \in {j \in 1..Len(ls) : ls[j].k = "ilike" /\ ls[j].col = "name"}}

\* c has the leaf  col >= v  (k = "ge")  or  col <= v  (k = "le")
HasBound(c, k, col, v) ==
    LET ls == Leaves(c)
    IN  \E i \in 1..Len(ls) : ls[i].k = k /\ ls[i].col = col /\ ls[i].v = v

\* the columns that the bounds in c are on
BoundColumns(c) ==
    LET ls == Leaves(c)
    IN  {ls[i].col : i \in {j \in 1..Len(ls) : ls[j].k \in {"ge", "le", "notnull"}}}

\* c filters nothing: no condition, or only the size limit that /search
\* adds to every request
Unfiltered(c) ==
    \/ c.k = "nocond"
    \/ /\ c.k = "and"
       /\ Len(c.cs) = 1
       /\ c.cs[1].k = "le"
       /\ c.cs[1].col = "size"
       /\ c.cs[1].v = 200 * 1024 * 1024

\* command and politeness words, and connectives
StopWords ==
    <<<<"qing">>, <<"bang", "wo">>, <<"zhao3">>, <<"yi1", "xia">>, <<"suo", "you3">>,
      <<"de">>, <<"zhao4", "pian">>, <<"cha", "zhao3">>, <<"huo", "zhe">>>>

\* t is not blank and is made of stopwords and blanks only
AllNoise(t) ==
    /\ Strip(t, Spaces) # <<>>
    /\ ReMatchAt(Cat(<<Plus(Alt(<<Words(StopWords), Cls(Spaces)>>)), Eos>>),
                 t, 1, FALSE).ok

\* t has a word that is not made of stopwords
HasContent(t) ==
    LET ws == SplitWs(t)
    IN  \E i \in 1..Len(ws) : ~AllNoise(ws[i])

\* the ids in a list
Ids(xs) == {xs[k] : k \in 1..Len(xs)}

\* the rows of the requesting user that are not deleted and satisfy the
\* condition of the request
Matches ==
    {i \in DOMAIN images :
        /\ images[i].user_id = req.user
        /\ images[i].deleted_at = None
        /\ Satisfies(images[i], pred, req.user)}

QueryStopwords == <<"bang", "wo", " ", "cha", "zhao3">>

QueryResolutionOrSunset == <<"4", "K", " ", "huo", "zhe", " ", "ri", "luo">>

QuerySizeRangeCat ==
    <<"4", "0", "0", "K", "B", "-", "1", "M", "B", " ", "zhi1", "jian", " ", "mao">>

QueryDateRangeScenery ==
    <<"2", "0", "2", "4", "-", "0", "1", "-", "0", "1", " ", "dao", " ",
      "2", "0", "2", "4", "-", "0", "1", "-", "3", "1", " ", "pai", "she", " ",
      "feng", "jing">>

(***************************************************************************)
(* C1                                                                      *)
(***************************************************************************)
\* C1: a query that is not empty and consists of stopwords only is answered
\* with an empty result, by /search and by the advanced search (alone or behind
\* the chat route) whose hints, if any, are stopwords too.
C1_NoiseQueryFindsNothing ==
    (/\ Served
     /\ AllNoise(text)
     /\ (op = "search" \/ \A i \in 1..Len(hints) : AllNoise(hints[i])))
    => result = <<>>

(***************************************************************************)
(* C2                                                                      *)
(***************************************************************************)
\* C2: a query with at least one word that is not a stopword is never answered
\* with the unfiltered rows of the user: the condition applied filters.
C2_ContentQueryIsFiltered ==
    (Served /\ HasContent(text)) => ~Unfiltered(pred)

(***************************************************************************)
(* C3                                                                      *)
(***************************************************************************)
\* C3: the empty query is answered with all rows of the user that are not
\* deleted (no condition but the filters of the request), and it is the only
\* query whose condition filters nothing.
C3_OnlyEmptyQueryUnfiltered ==
    Served =>
        /\ (text = <<>> /\ (op = "search" \/ hints = <<>>)) => Unfiltered(pred)
        /\ (text = <<>> /\ op = "advanced" /\ hints = <<>> /\ req.limit = None)
               => Ids(result) = _query_user_images(req.user, FALSE)
        /\ Unfiltered(pred) => text = <<>>
(***************************************************************************)
(* The parts of the clauses of a request                                   *)
(***************************************************************************)
\* the structured conditions and the keyword expression of one clause
ClauseParts(raw, keywords) ==
    [sc |-> structured_conds(raw), kc |-> keyword_cond(raw, keywords)]

\* the clauses _ai_advanced_search builds: one for each segment when the query
\* has a disjunctive connective, else one for the whole query
AdvancedClauses(raw, keywords) ==
    IF _ai_detect_logic_mode(raw) = "or"
    THEN LET segs == _split_or_segments(raw)
         IN  ([i \in 1..Len(segs) |->
                ClauseParts(segs[i], seg_kws(segs[i], keywords))] \o <<>>)
    ELSE <<ClauseParts(raw, keywords)>>

\* the clause /search builds of its keyword parameter
SearchClauses(raw) ==
    LET keyword == Strip(raw, Spaces)
    IN  IF keyword = <<>> THEN <<>>
        ELSE <<[sc |-> search_structured_conds(keyword),
                kc |-> _build_keyword_groups_condition(
                           _nl_extract_keyword_groups(keyword, exclude_terms(keyword)))]>>

\* the clauses and the logic mode of every request
ClauseTable ==
    {[op |-> "advanced", text |-> q, hints |-> h, mode |-> _ai_detect_logic_mode(q),
      parts |-> AdvancedClauses(q, h)] : q \in Queries, h \in HintLists}
    \cup {[op |-> "chat", text |-> q, hints |-> h, mode |-> _ai_detect_logic_mode(q),
           parts |-> AdvancedClauses(q, chat_keywords(q, h))] :
              q \in Queries \ {<<>>}, h \in HintLists}
    \cup {[op |-> "search", text |-> q, hints |-> <<>>,
           mode |-> _ai_detect_logic_mode(Strip(q, Spaces)),
           parts |-> SearchClauses(q)] : q \in Queries}

\* the clauses of the request that has been served
Clause ==
    CHOOSE r \in ClauseTable :
        r.op = op /\ r.text = text /\ (op = "search" \/ r.hints = hints)

\* the clause has structured conditions and a keyword expression
Both(p) == p.sc # <<>> /\ p.kc # None

\* (all structured conditions) OR (keywords), or (all ...) AND (keywords)
Combined(p, disj) ==
    IF disj THEN or_(<<and_(p.sc), p.kc[1]>>) ELSE and_(<<and_(p.sc), p.kc[1]>>)

\* c is the condition of a clause of the request: the keyword filter of /search,
\* one of the OR-ed clauses of the advanced search, or its only clause
Built(c) ==
    CASE op = "search" -> pred.cs[1] = c
      [] Clause.mode = "or" -> pred.k = "or" /\ \E i \in 1..Len(pred.cs) : pred.cs[i] = c
      [] OTHER -> pred = c

\* the conjuncts of a condition: nested conjunctions are one conjunction
RECURSIVE Conjuncts(_)
Conjuncts(c) ==
    IF c.k = "and"
    THEN Join(([i \in 1..Len(c.cs) |-> Conjuncts(c.cs[i])] \o <<>>), <<>>)
    ELSE <<c>>

\* the lower and upper bounds in c
Bounds(c) ==
    LET ls == Leaves(c)
    IN  {<<ls[i].k, ls[i].col, ls[i].v>> : i \in {j \in 1..Len(ls) : ls[j].k \in {"ge", "le"}}}

\* the size limit /search adds to every request
DefaultSizeLimit == <<"le", "size", 200 * 1024 * 1024>>

\* no bound of c is under a disjunction: the bounds are AND-ed with the rest
Conjoined(c) ==
    LET cj == Conjuncts(c)
    IN  \A i \in 1..Len(cj) : cj[i].k \in {"ge", "le", "notnull"} \/ Bounds(cj[i]) = {}

(***************************************************************************)
(* C4                                                                      *)
(***************************************************************************)
\* C4: a clause that has structured conditions and a keyword expression is
\* compiled to (all structured conditions) OR (keywords) when the logic mode
\* of the query is OR, and to (all structured conditions) AND (keywords)
\* otherwise, by the clause builder and by /search alike.
C4_ClauseCombinesByMode ==
    Served => \A i \in 1..Len(Clause.parts) :
                Both(Clause.parts[i])
                    => Built(Combined(Clause.parts[i], Clause.mode = "or"))

\* C4, amended: /search combines the two by OR when the logic mode is OR and
\* by AND otherwise; the clause builder combines them by AND whatever the
\* logic mode, and the clauses of an OR query are OR-ed with one another.
C4_BuilderCombinesByAnd ==
    Served => \A i \in 1..Len(Clause.parts) :
                Both(Clause.parts[i])
                    => Built(Combined(Clause.parts[i],
                                      op = "search" /\ Clause.mode = "or"))

\* an OR query whose clause has both parts has been answered by the advanced
\* search, and a row of the user with the keyword but without the structured
\* conditions is not in the result
C4_Witness ==
    /\ Served
    /\ op \in {"advanced", "chat"}
    /\ req.limit = None
    /\ Clause.mode = "or"
    /\ \E i \in 1..Len(Clause.parts) :
        /\ Both(Clause.parts[i])
        /\ \E j \in DOMAIN images :
            /\ images[j].user_id = req.user
            /\ images[j].deleted_at = None
            /\ Satisfies(images[j], Clause.parts[i].kc[1], req.user)
            /\ ~Satisfies(images[j], and_(Clause.parts[i].sc), req.user)
            /\ j \notin Ids(result)

(***************************************************************************)
(* C5                                                                      *)
(***************************************************************************)
\* C5: "4K 或者 日落" compiles to an OR of exactly two clauses, the first with
\* the lower bound of the resolution (3840*2160 pixels) and nothing else, the
\* second with the keyword 日落 only; and a query that is a resolution alias
\* only gets no condition on the file size.
C5_ResolutionAliasOrSunset ==
    Served =>
        /\ (text = QueryResolutionOrSunset /\ op \in {"advanced", "chat"}) =>
            /\ pred.k = "or"
            /\ Len(pred.cs) = 2
            /\ <<"ge", "pixels", 3840 * 2160>> \in Bounds(pred.cs[1])
            /\ \A b \in Bounds(pred.cs[1]) :
                    b[1] = "ge" /\ b[2] \in {"pixels", "width", "height"}
            /\ LET ls == Leaves(pred.cs[1])
               IN  \A i \in 1..Len(ls) : ls[i].k = "ge"
            /\ Bounds(pred.cs[2]) = {}
            /\ KeywordTerms(pred.cs[2]) = {<<"ri", "luo">>}
        /\ text = <<"4", "K">> =>
            \A b \in Bounds(pred) \ {DefaultSizeLimit} : b[2] # "size"

(***************************************************************************)
(* C6                                                                      *)
(***************************************************************************)
\* C6: "400KB-1MB 之间 猫" compiles to the size range from 400*1024 to
\* 1024*1024 bytes AND the keyword 猫: 猫 is the only keyword term.
C6_SizeRangeAndCat ==
    (Served /\ text = QuerySizeRangeCat /\ (op = "search" \/ hints = <<>>)) =>
        /\ Bounds(pred) \ {DefaultSizeLimit}
               = {<<"ge", "size", 400 * 1024>>, <<"le", "size", 1024 * 1024>>}
        /\ KeywordTerms(pred) = {<<"mao">>}
        /\ Conjoined(pred)

(***************************************************************************)
(* C7                                                                      *)
(***************************************************************************)
\* C7: "2024-01-01 到 2024-01-31 拍摄 风景" compiles to the range of the
\* capture time from 2024-01-01 00:00:00 to 2024-01-31 23:59:59.999999 AND the
\* keyword 风景, kept as one term and the only term.
C7_DateRangeAndScenery ==
    (Served /\ text = QueryDateRangeScenery /\ (op = "search" \/ hints = <<>>)) =>
        /\ Bounds(pred) \ {DefaultSizeLimit}
               = {<<"ge", "taken_at", <<2024, 1, 1, 0, 0, 0, 0>>>>,
                  <<"le", "taken_at", <<2024, 1, 31, 23, 59, 59, 999999>>>>}
        /\ KeywordTerms(pred) = {<<"feng", "jing">>}
        /\ Conjoined(pred)

(***************************************************************************)
(* C8                                                                      *)
(***************************************************************************)
\* the queries with an album phrase of the form 名为"X"的相册
AlbumQueries == {q \in Queries : ReFound(AlbumNamedPattern, q)}

\* C8: the title X of an album phrase 名为"X"的相册 is used for the album
\* condition only: neither X nor a piece of X is a keyword term, on /search
\* and in the advanced search.
C8_AlbumTitleIsNoKeyword ==
    (Served /\ text \in AlbumQueries) =>
        LET X == _ai_parse_album(_normalize_query_text(text))
            ls == Leaves(pred)
        IN  /\ X # <<>>
            /\ \E i \in 1..Len(ls) : ls[i].k = "album" /\ ls[i].term = X
            /\ \A t \in KeywordTerms(pred) : ~Contains(X, t)

(***************************************************************************)
(* C9                                                                      *)
(***************************************************************************)
\* C9: the rows the advanced search returns are rows of the requesting user
\* that are not deleted and satisfy the condition, each once and the most
\* recently uploaded first; a limit above 0 keeps the first `limit` of them,
\* no limit or a limit of 0 or less keeps them all.
C9_AdvancedResultScopedOrderedLimited ==
    (Served /\ op \in {"advanced", "chat"}) =>
        /\ Ids(result) \subseteq Matches
        /\ \A k, l \in 1..Len(result) :
            k < l => /\ result[k] # result[l]
                     /\ DtLe(images[result[l]].created_at, images[result[k]].created_at)
        /\ \A i \in Matches \ Ids(result) : \A k \in 1..Len(result) :
                DtLe(images[i].created_at, images[result[k]].created_at)
        /\ IF req.limit # None /\ req.limit[1] > 0
           THEN Len(result) = (IF req.limit[1] < Cardinality(Matches)
                               THEN req.limit[1] ELSE Cardinality(Matches))
           ELSE Ids(result) = Matches

\* an OR of clauses is answered with a limit of 1, and a row of the user in
\* the recycle bin and a row of another user satisfy the condition too
C9_Witness ==
    /\ Served
    /\ op = "advanced"
    /\ pred.k = "or"
    /\ req.limit = Some(1)
    /\ Len(result) = 1
    /\ Cardinality(Matches) > 1
    /\ \E i, j \in DOMAIN images :
        /\ images[i].user_id = req.user
        /\ images[i].deleted_at # None
        /\ Satisfies(images[i], pred, req.user)
        /\ images[j].user_id # req.user
        /\ Satisfies(images[j], pred, images[j].user_id)

(***************************************************************************)
(* C10                                                                     *)
(***************************************************************************)
\* C10: a search request never changes the catalog: every field of every
\* row, deleted_at included, stays as it was, also when a file is missing.
C10_SearchLeavesCatalog == [][images' = images]_vars

\* C10, amended: the advanced search never changes the catalog; /search
\* changes only rows of the requesting user that match the request, are not
\* deleted and have no file on disk: it sets their deleted_at and updated_at
\* to the time of the request and leaves every other field as it was.
C10_SearchOnlyMarksMissing ==
    [][\A i \in DOMAIN images :
          images'[i] # images[i] =>
              /\ op' = "search"
              /\ images[i].user_id = req'.user
              /\ Satisfies(images[i], pred', req'.user)
              /\ images[i].deleted_at = None
              /\ i \notin disk
              /\ i \notin Ids(result')
              /\ images'[i].deleted_at \in Clock
              /\ images'[i] = [images[i] EXCEPT !.deleted_at = images'[i].deleted_at,
                                                !.updated_at = images'[i].deleted_at]]_vars

\* /search has been answered, and a row whose file is missing is now deleted
C10_Witness ==
    /\ Served
    /\ op = "search"
    /\ \E i \in DOMAIN images :
        /\ i \notin disk
        /\ Catalog[i].deleted_at = None
        /\ images[i].deleted_at \in Clock
        /\ i \notin Ids(result)

(***************************************************************************)
(* The extractors on their own.  A query text is drawn from the families   *)
(* below, one extractor is applied to it, and `out` is what it returned.   *)
(***************************************************************************)
\* the largest number of dates written in a text
MaxDates == 3

\* the dates written in the texts
TestDates ==
    <<<<2024, 1, 5, 0, 0, 0, 0>>, <<2024, 3, 1, 0, 0, 0, 0>>, <<2023, 12, 31, 0, 0, 0, 0>>>>

DigitChar(n) == <<"0", "1", "2", "3", "4", "5", "6", "7", "8", "9">>[n + 1]

\* the decimal numeral of n
RECURSIVE Decimal(_)
Decimal(n) == IF n < 10 THEN <<DigitChar(n)>> ELSE Decimal(n \div 10) \o <<DigitChar(n % 10)>>

\* a date written as 2024-01-05, and as 2024年1月5日
IsoText(d) ==
    Decimal(d[1]) \o <<"-">> \o (IF d[2] < 10 THEN <<"0">> ELSE <<>>) \o Decimal(d[2])
    \o <<"-">> \o (IF d[3] < 10 THEN <<"0">> ELSE <<>>) \o Decimal(d[3])

HanText(d) ==
    Decimal(d[1]) \o <<"nian">> \o Decimal(d[2]) \o <<"yue">> \o Decimal(d[3]) \o <<"ri">>

DateText(d, han) == IF han THEN HanText(d) ELSE IsoText(d)

\* the lists of n dates
DateLists(n) == [1..n -> Range(TestDates)]

\* the dates ds written one after the other, sep between them
RECURSIVE DatesText(_, _, _)
DatesText(ds, han, sep) ==
    IF Len(ds) = 0 THEN <<>>
    ELSE IF Len(ds) = 1 THEN DateText(ds[1], han)
    ELSE DateText(ds[1], han) \o sep \o DatesText(Tail(ds), han, sep)

DateSeps == {<<" ">>, <<" ", "dao", " ">>}

DateTexts ==
    {DatesText(ds, han, sep) :
        ds \in UNION {DateLists(n) : n \in 1..MaxDates}, han \in BOOLEAN, sep \in DateSeps}

\* the words that name the capture time and the upload time, "" for no word
FieldWords ==
    <<[w |-> <<>>, kind |-> "none"],
      [w |-> <<"pai", "she">>, kind |-> "capture"],
      [w |-> <<"she", "yu">>, kind |-> "capture"],
      [w |-> <<"t", "a", "k", "e", "n">>, kind |-> "capture"],
      [w |-> <<"c", "a", "p", "t", "u", "r", "e">>, kind |-> "capture"],
      [w |-> <<"shang", "chuan">>, kind |-> "upload"],
      [w |-> <<"u", "p", "l", "o", "a", "d">>, kind |-> "upload"]>>

\* no date, one date, a range of dates
FieldDates ==
    {<<>>, IsoText(TestDates[1]),
     IsoText(TestDates[1]) \o <<" ", "dao", " ">> \o IsoText(TestDates[2])}

FieldText(dates, i, j) == dates \o <<" ">> \o FieldWords[i].w \o <<" ">> \o FieldWords[j].w

FieldTexts ==
    {FieldText(dates, i, j) : dates \in FieldDates, i \in 1..Len(FieldWords),
                              j \in 1..Len(FieldWords)}

\* sizes as they are written, and their number of bytes
SizeValues ==
    <<[w |-> <<"3", "0", "0", "K", "B">>, bytes |-> 300 * 1024],
      [w |-> <<"5", "M", "B">>, bytes |-> 5 * 1024 * 1024],
      [w |-> <<"1", "0", "m", "b">>, bytes |-> 10 * 1024 * 1024],
      [w |-> <<"1", ".", "5", "M">>, bytes |-> 1536 * 1024]>>

\* the qualifier words written before a size and after a size, "" for none:
\* 大于 5MB, 小于 5MB, 5MB 以上, 5MB 以下
QualifiersBefore ==
    <<[w |-> <<>>, kind |-> "none"], [w |-> <<"da", "yu">>, kind |-> "above"],
      [w |-> <<"xiao", "yu">>, kind |-> "below"]>>

QualifiersAfter ==
    <<[w |-> <<>>, kind |-> "none"], [w |-> <<"yi", "shang">>, kind |-> "above"],
      [w |-> <<"yi", "xia">>, kind |-> "below"]>>

\* another part of the query, with a qualifier of its own: "", 大于1080p, 1080p以上
OtherParts ==
    <<[before |-> <<>>, after |-> <<>>],
      [before |-> <<"da", "yu", "1", "0", "8", "0", "p", " ">>, after |-> <<>>],
      [before |-> <<>>, after |-> <<" ", "1", "0", "8", "0", "p", "yi", "shang">>]>>

SingleSizeText(v, b, a, o) ==
    OtherParts[o].before \o QualifiersBefore[b].w \o SizeValues[v].w
    \o QualifiersAfter[a].w \o OtherParts[o].after

SingleSizeTexts ==
    {SingleSizeText(v, b, a, o) :
        v \in 1..Len(SizeValues), b \in 1..Len(QualifiersBefore),
        a \in 1..Len(QualifiersAfter), o \in 1..Len(OtherParts)}

\* the numbers, units and connectives of the size ranges
RangeNumbers == {3, 5}

RangeUnits ==
    <<[w |-> <<>>, factor |-> 0], [w |-> <<"M", "B">>, factor |-> 1024 * 1024],
      [w |-> <<"k", "b">>, factor |-> 1024]>>

RangeSeps == {<<"-">>, <<" ", "dao", " ">>}

SizeRangeText(n1, u1, sep, n2, u2) ==
    Decimal(n1) \o RangeUnits[u1].w \o sep \o Decimal(n2) \o RangeUnits[u2].w

SizeRangeTexts ==
    {SizeRangeText(n1, u1, sep, n2, u2) :
        n1 \in RangeNumbers, n2 \in RangeNumbers, u1 \in 1..Len(RangeUnits),
        u2 \in 1..Len(RangeUnits), sep \in RangeSeps}

\* the heights of the <digits>p tokens
Heights == {144, 240, 360, 480, 540, 720, 900, 1080, 1440, 2160}

HeightText(h, tail) == Decimal(h) \o <<"p">> \o tail

HeightTexts == {HeightText(h, tail) : h \in Heights, tail \in {<<>>, <<" ", "ri", "luo">>}}

\* the terms of the keyword texts, and what stands between two terms: a space,
\* or a connective between spaces
Terms == <<<<"mao">>, <<"ri", "luo">>, <<"c", "a", "t">>, <<"gou">>>>

AndConnectives ==
    {<<"bing", "qie">>, <<"er", "qie">>, <<"tong", "shi2">>, <<"yi", "ji3">>, <<"he">>,
     <<"qie">>, <<"a", "n", "d">>, <<"&">>}

OrConnectives ==
    {<<"huo", "zhe", "shi">>, <<"huo", "zhe">>, <<"huo", "shi">>, <<"huo", "ze">>,
     <<"hai", "shi">>, <<"o", "r">>, <<"|">>}

\* the connectives written in the texts
Links == <<<<>>, <<"bing", "qie">>, <<"a", "n", "d">>, <<"&">>, <<"huo", "zhe">>,
           <<"o", "r">>, <<"|">>>>

Link(l) == IF Links[l] = <<>> THEN <<" ">> ELSE <<" ">> \o Links[l] \o <<" ">>

\* one term, two terms, and 猫, 狗, 日落 with two links
KeywordText(ts, ls) ==
    IF Len(ts) = 1 THEN Terms[ts[1]]
    ELSE IF Len(ts) = 2 THEN Terms[ts[1]] \o Link(ls[1]) \o Terms[ts[2]]
    ELSE Terms[ts[1]] \o Link(ls[1]) \o Terms[ts[2]] \o Link(ls[2]) \o Terms[ts[3]]

KeywordShapes ==
    {[ts |-> <<t>>, ls |-> <<>>] : t \in 1..Len(Terms)}
    \cup {[ts |-> <<t1, t2>>, ls |-> <<l>>] :
            t1 \in 1..Len(Terms), t2 \in 1..Len(Terms), l \in 1..Len(Links)}
    \cup {[ts |-> <<1, 4, 2>>, ls |-> <<l1, l2>>] :
            l1 \in 1..Len(Links), l2 \in 1..Len(Links)}

KeywordTexts == {KeywordText(sh.ts, sh.ls) : sh \in KeywordShapes}

\* the connective words the logic-mode detector looks for, "" for none
Disjunctives ==
    <<<<>>, <<"huo", "zhe", "shi">>, <<"huo", "zhe">>, <<"huo", "shi">>, <<"huo", "ze">>,
      <<"hai", "shi">>, <<"huo">>>>

Conjunctives ==
    <<<<>>, <<"bing", "qie">>, <<"er", "qie">>, <<"tong", "shi2">>, <<"yi", "ji3">>,
      <<"you">>, <<"bing", "qie", "hai">>, <<"bing", "qie", "tong", "shi2">>>>

\* 猫 d 狗 c 日落, and 猫 c 狗 d 日落
LogicText(d, c, first) ==
    IF first
    THEN <<"mao">> \o Disjunctives[d] \o <<"gou">> \o Conjunctives[c] \o <<"ri", "luo">>
    ELSE <<"mao">> \o Conjunctives[c] \o <<"gou">> \o Disjunctives[d] \o <<"ri", "luo">>

LogicTexts ==
    {<<>>} \cup {LogicText(d, c, first) :
                    d \in 1..Len(Disjunctives), c \in 1..Len(Conjunctives),
                    first \in BOOLEAN}

\* texts with a camera phrase: 相机 Canon, 用 Canon 拍摄 日落
CameraTexts ==
    {<<"xiang", "ji", " ", "C", "a", "n", "o", "n">>,
     <<"yong", " ", "C", "a", "n", "o", "n", " ", "pai", "she", " ", "ri", "luo">>}

\* no extractor has been applied yet
ExtractorInit ==
    /\ text = <<>>
    /\ hints = <<>>
    /\ images = Catalog
    /\ disk = DOMAIN Catalog
    /\ op = "none"
    /\ req = NoRequest
    /\ pred = NoCond
    /\ result = <<>>
    /\ total = 0
    /\ status = 0
    /\ out = None
    /\ today = 0
    /\ retention = 0
    /\ purge = <<>>
    /\ gone = {}
    /\ tagrows = <<>>
    /\ links = {}
    /\ agent = <<>>

\* an extractor is applied to a text t, and `out` is what it returns
ParseDateRange ==
    /\ op = "none"
    /\ \E t \in DateTexts \cup FieldTexts :
        /\ text' = t
        /\ op' = "date"
        /\ out' = _ai_parse_date_range(t)
    /\ UNCHANGED <<hints, images, disk, req, pred, result, total, status, recycleVars, tagVars, agentVars>>

ParseSize ==
    /\ op = "none"
    /\ \E t \in SingleSizeTexts \cup SizeRangeTexts :
        /\ text' = t
        /\ op' = "size"
        /\ out' = _ai_parse_size(t)
    /\ UNCHANGED <<hints, images, disk, req, pred, result, total, status, recycleVars, tagVars, agentVars>>

ParseResolution ==
    /\ op = "none"
    /\ \E t \in HeightTexts :
        /\ text' = t
        /\ op' = "resolution"
        /\ out' = _ai_parse_resolution(t)
    /\ UNCHANGED <<hints, images, disk, req, pred, result, total, status, recycleVars, tagVars, agentVars>>

DetectLogicMode ==
    /\ op = "none"
    /\ \E t \in LogicTexts \cup KeywordTexts :
        /\ text' = t
        /\ op' = "mode"
        /\ out' = _ai_detect_logic_mode(t)
    /\ UNCHANGED <<hints, images, disk, req, pred, result, total, status, recycleVars, tagVars, agentVars>>

ExtractKeywordGroups ==
    /\ op = "none"
    /\ \E t \in KeywordTexts :
        /\ text' = t
        /\ op' = "groups"
        /\ out' = _nl_extract_keyword_groups(t, {})
    /\ UNCHANGED <<hints, images, disk, req, pred, result, total, status, recycleVars, tagVars, agentVars>>

\* the clause builder, and the filter of /search, on the text t
BuildClauseCondition ==
    /\ op = "none"
    /\ \E t \in SingleSizeTexts \cup SizeRangeTexts :
        /\ text' = t
        /\ op' = "clause"
        /\ out' = _ai_build_clause_condition(t, hints)
    /\ UNCHANGED <<hints, images, disk, req, pred, result, total, status, recycleVars, tagVars, agentVars>>

BuildSearchCondition ==
    /\ op = "none"
    /\ \E t \in SingleSizeTexts \cup SizeRangeTexts \cup CameraTexts :
        /\ text' = t
        /\ op' = "search"
        /\ out' = search_cond(t)
    /\ UNCHANGED <<hints, images, disk, req, pred, result, total, status, recycleVars, tagVars, agentVars>>

\* the hints of the checks, with what each one is: a term, empty after
\* trimming, longer than 40 characters, noise, or shaped like a date, a size
\* or a resolution; 狗, " 日 ", "", "  ", 41 letters, 40 letters, 查找,
\* 2024-01-05, 5MB, 1080p
HintWords ==
    <<[w |-> <<"gou">>, kind |-> "term"],
      [w |-> <<" ", "ri", " ">>, kind |-> "term"],
      [w |-> <<>>, kind |-> "empty"],
      [w |-> <<" ", " ">>, kind |-> "empty"],
      [w |-> [i \in 1..41 |-> "a"], kind |-> "long"],
      [w |-> [i \in 1..40 |-> "b"], kind |-> "term"],
      [w |-> <<"cha", "zhao3">>, kind |-> "noise"],
      [w |-> <<"2", "0", "2", "4", "-", "0", "1", "-", "0", "5">>, kind |-> "date"],
      [w |-> <<"5", "M", "B">>, kind |-> "size"],
      [w |-> <<"1", "0", "8", "0", "p">>, kind |-> "resolution"]>>

\* the lists of hints: none, each hint alone, and all of them
TestHintLists ==
    {<<>>} \cup {<<HintWords[i].w>> : i \in 1..Len(HintWords)}
    \cup {[i \in 1..Len(HintWords) |-> HintWords[i].w]}

\* 日落 5MB, 风景 或者 日落 5MB, 风景 查找 或者 日落 1080p 2024-01-05
HintQueries ==
    {<<"ri", "luo", " ", "5", "M", "B">>,
     <<"feng", "jing", " ", "huo", "zhe", " ", "ri", "luo", " ", "5", "M", "B">>,
     <<"feng", "jing", " ", "cha", "zhao3", " ", "huo", "zhe", " ", "ri", "luo", " ",
       "1", "0", "8", "0", "p", " ", "2", "0", "2", "4", "-", "0", "1", "-", "0", "5">>}

HintCases == {[text |-> t, hints |-> h] : t \in HintQueries, h \in TestHintLists}

\* the camera texts with the keywords found in them, the phrase among them
CameraCases ==
    {[text |-> t, hints |-> h] :
        t \in CameraTexts, h \in {<<>>, <<<<"C", "a", "n", "o", "n">>>>,
                                  <<<<"C", "a", "n", "o", "n">>, <<"ri", "luo">>>>}}

\* the condition _ai_advanced_search filters by, for a text and a list of hints
AdvancedCondition ==
    /\ op = "none"
    /\ \E c \in HintCases \cup CameraCases :
        /\ text' = c.text
        /\ hints' = c.hints
        /\ op' = "cond"
        /\ out' = advanced_cond(c.text, c.hints)
    /\ UNCHANGED <<images, disk, req, pred, result, total, status, recycleVars, tagVars, agentVars>>

\* what Python passes for the keywords argument: None, a number, a string, or
\* a list whose items are strings, numbers or None
HintArguments ==
    <<[shape |-> "none", v |-> <<>>],
      [shape |-> "int", v |-> 5],
      [shape |-> "int", v |-> 0],
      [shape |-> "str", v |-> <<"ri", "luo">>],
      [shape |-> "list", v |-> <<[shape |-> "int", v |-> 5]>>],
      [shape |-> "list", v |-> <<[shape |-> "str", v |-> <<"gou">>],
                                 [shape |-> "int", v |-> 5]>>],
      [shape |-> "list", v |-> <<[shape |-> "none", v |-> <<>>]>>]>>

\* for kw in keywords or []: kw = (kw or "").strip(). A number that is not 0
\* cannot be iterated (TypeError), a string is iterated character by
\* character, and an item that is a number other than 0 has no strip
\* (AttributeError)
IterKeywords(arg) ==
    CASE arg.shape = "none" -> [error |-> "none", keywords |-> <<>>]
      [] arg.shape = "int" ->
            IF arg.v = 0 THEN [error |-> "none", keywords |-> <<>>]
            ELSE [error |-> "TypeError", keywords |-> <<>>]
      [] arg.shape = "str" ->
            [error |-> "none", keywords |-> [i \in 1..Len(arg.v) |-> <<arg.v[i]>>]]
      [] arg.shape = "list" ->
            IF \E i \in 1..Len(arg.v) : arg.v[i].shape = "int" /\ arg.v[i].v # 0
            THEN [error |-> "AttributeError", keywords |-> <<>>]
            ELSE [error |-> "none",
                  keywords |-> [i \in 1..Len(arg.v) |->
                                  IF arg.v[i].shape = "str" THEN arg.v[i].v ELSE <<>>]]

\* _ai_advanced_search(user_id, text, keywords) with a keywords argument that
\* is no list of strings: the exception it raises, or the filter
AdvancedConditionOfArgument ==
    /\ op = "none"
    /\ \E t \in HintQueries, a \in 1..Len(HintArguments) :
        /\ text' = t
        /\ op' = "argument"
        /\ out' = [argument |-> a,
                   error |-> IterKeywords(HintArguments[a]).error,
                   cond |-> IF IterKeywords(HintArguments[a]).error = "none"
                            THEN advanced_cond(t, IterKeywords(HintArguments[a]).keywords)
                            ELSE Nothing]
    /\ UNCHANGED <<hints, images, disk, req, pred, result, total, status, recycleVars, tagVars, agentVars>>

ExtractorNext ==
    \/ ParseDateRange
    \/ ParseSize
    \/ ParseResolution
    \/ DetectLogicMode
    \/ ExtractKeywordGroups
    \/ BuildClauseCondition
    \/ BuildSearchCondition
    \/ AdvancedCondition
    \/ AdvancedConditionOfArgument

ExtractorSpec == ExtractorInit /\ [][ExtractorNext]_vars

(***************************************************************************)
(* C11                                                                     *)
(***************************************************************************)
\* the earlier and the later of two dates
Earlier(d1, d2) == IF DtLt(d2, d1) THEN d2 ELSE d1

Later(d1, d2) == IF DtLt(d2, d1) THEN d1 ELSE d2

\* the texts in which exactly the dates d1 and d2 are written, d1 first
TwoDateTexts(d1, d2) ==
    {DatesText(<<d1, d2>>, han, sep) : han \in BOOLEAN, sep \in DateSeps}
    \cup {FieldText(DatesText(<<d1, d2>>, FALSE, <<" ", "dao", " ">>), i, j) :
            i \in 1..Len(FieldWords), j \in 1..Len(FieldWords)}

\* C11: for every text that contains exactly two well-formed dates d1 and d2,
\* in either order of appearance, the date-range extractor returns
\* start = min(d1, d2) at 00:00:00 and end = max(d1, d2) at 23:59:59.999999,
\* so start <= end and the result is the same for both orders.
C11_TwoDatesSortedFullDays ==
    \A d1 \in Range(TestDates), d2 \in Range(TestDates) :
        (op = "date" /\ text \in TwoDateTexts(d1, d2)) =>
            /\ out.start = StartOfDay(Earlier(d1, d2))
            /\ out.end = EndOfDay(Later(d1, d2))
            /\ DtLe(out.start, out.end)

\* the later date is written first, and the range starts at the earlier one
C11_Witness ==
    /\ op = "date"
    /\ text = DatesText(<<TestDates[2], TestDates[3]>>, TRUE, <<" ", "dao", " ">>)
    /\ out.start = StartOfDay(TestDates[3])
    /\ out.end = EndOfDay(TestDates[2])

(***************************************************************************)
(* The widening of a single size                                           *)
(***************************************************************************)
\* the bounds on size in the condition that was built for the text; the limit
\* that /search adds to every request is not one of them
SizeBoundsBuilt ==
    IF op = "clause"
    THEN (IF out = None THEN {} ELSE {b \in Bounds(out[1]) : b[2] = "size"})
    ELSE {b \in Bounds(out) : b[2] = "size"} \ {DefaultSizeLimit}

\* the bounds as the size extractor returned them
SizeBoundsParsed(size) ==
    (IF size.min # None THEN {<<"ge", "size", size.min[1]>>} ELSE {})
    \cup (IF size.max # None THEN {<<"le", "size", size.max[1]>>} ELSE {})

\* max(floor(0.1 * v), 500 * 1024)
Tolerance(v) == IF v \div 10 > 500 * 1024 THEN v \div 10 ELSE 500 * 1024

\* the band around v
WidenedBounds(v) ==
    {<<"ge", "size", IF v - Tolerance(v) > 0 THEN v - Tolerance(v) ELSE 0>>,
     <<"le", "size", v + Tolerance(v)>>}

\* a condition has been built from a size text
SizeBuilt == op \in {"clause", "search"} /\ text \in SingleSizeTexts \cup SizeRangeTexts

\* a single size without any qualifier word is widened to the band around it
SingleSizeWidened ==
    \A v \in 1..Len(SizeValues) :
        (SizeBuilt /\ text = SingleSizeText(v, 1, 1, 1)) =>
            /\ SizeBoundsBuilt = WidenedBounds(SizeValues[v].bytes)
            /\ \E lo \in SizeBoundsBuilt, hi \in SizeBoundsBuilt :
                /\ lo[1] = "ge" /\ hi[1] = "le"
                /\ 0 <= lo[3] /\ lo[3] <= SizeValues[v].bytes
                /\ SizeValues[v].bytes <= hi[3]
                /\ \/ lo[3] = 0
                   \/ 10 * (SizeValues[v].bytes - lo[3]) >= SizeValues[v].bytes - 9
                /\ 10 * (hi[3] - SizeValues[v].bytes) >= SizeValues[v].bytes - 9
                /\ hi[3] - SizeValues[v].bytes >= 500 * 1024

\* the size extractor returned one bound only
OneSided(size) == (size.min = None) # (size.max = None)

\* C12: a single size with a unit and no qualifier word (min = max = v) is
\* replaced by min' = max(0, v - tol) and max' = v + tol, where
\* tol = max(floor(0.1 * v), 500 * 1024), so that 0 <= min' <= v <= max'; a
\* one-sided bound is built as it was parsed, and so is a range whose two
\* ends differ
C12_SingleSizeWidened ==
    /\ SingleSizeWidened
    /\ (SizeBuilt /\ OneSided(_ai_parse_size(text))) =>
            SizeBoundsBuilt = SizeBoundsParsed(_ai_parse_size(text))
    /\ \A n1 \in RangeNumbers, n2 \in RangeNumbers :
       \A u1 \in 1..Len(RangeUnits), u2 \in 1..Len(RangeUnits), sep \in RangeSeps :
            (/\ SizeBuilt /\ text = SizeRangeText(n1, u1, sep, n2, u2)
             /\ _ai_parse_size(text).min # _ai_parse_size(text).max) =>
                SizeBoundsBuilt = SizeBoundsParsed(_ai_parse_size(text))

\* C12 as it was stated: no range at all is widened
C12_NoRangeWidened ==
    /\ SingleSizeWidened
    /\ (SizeBuilt /\ OneSided(_ai_parse_size(text))) =>
            SizeBoundsBuilt = SizeBoundsParsed(_ai_parse_size(text))
    /\ \A n1 \in RangeNumbers, n2 \in RangeNumbers :
       \A u1 \in 1..Len(RangeUnits), u2 \in 1..Len(RangeUnits), sep \in RangeSeps :
            (SizeBuilt /\ text = SizeRangeText(n1, u1, sep, n2, u2)) =>
                SizeBoundsBuilt = SizeBoundsParsed(_ai_parse_size(text))

\* 300KB is widened to 0 .. 800KB by /search, the lower end cut at 0
C12_Witness ==
    /\ op = "search"
    /\ text = SingleSizeText(1, 1, 1, 1)
    /\ SizeBoundsBuilt = {<<"ge", "size", 0>>, <<"le", "size", 800 * 1024>>}

(***************************************************************************)
(* Three dates and more                                                    *)
(***************************************************************************)
\* d put at its place in the ascending list ds
RECURSIVE InsertDate(_, _)
InsertDate(d, ds) ==
    IF ds = <<>> THEN <<d>>
    ELSE IF DtLt(ds[1], d) THEN <<ds[1]>> \o InsertDate(d, Tail(ds))
    ELSE <<d>> \o ds

\* the dates of ds in ascending order
RECURSIVE SortedDates(_)
SortedDates(ds) ==
    IF ds = <<>> THEN <<>> ELSE InsertDate(ds[1], SortedDates(Tail(ds)))

\* C13: of three valid dates or more, in any order, the range starts with the
\* first moment of the earliest and ends with the last moment of the next
\* earliest
C13_EarliestTwoOfAll ==
    \A n \in 3..MaxDates : \A ds \in DateLists(n) :
    \A han \in BOOLEAN, sep \in DateSeps :
        (op = "date" /\ text = DatesText(ds, han, sep)) =>
            /\ out.start = StartOfDay(SortedDates(ds)[1])
            /\ out.end = EndOfDay(SortedDates(ds)[2])

(***************************************************************************)
(* The field of a date range                                               *)
(***************************************************************************)
\* the field for a text with words of these kinds
FieldFor(kinds) ==
    IF "upload" \in kinds THEN "created"
    ELSE IF "capture" \in kinds THEN "taken"
    ELSE "created"

\* C14: the field of the range is created by default, taken when the text has
\* a capture word (拍摄, 摄于, taken, capture) and no upload word, and created
\* whenever it has an upload word (上传, upload), with a capture word or
\* without; it is the same whether the text has no date, one date or two
C14_FieldByWords ==
    /\ \A dates \in FieldDates :
       \A i \in 1..Len(FieldWords), j \in 1..Len(FieldWords) :
            (op = "date" /\ text = FieldText(dates, i, j)) =>
                /\ out.field = FieldFor({FieldWords[i].kind, FieldWords[j].kind})
                /\ (dates = <<>>) <=> (out.start = None /\ out.end = None)
    /\ (op = "date" /\ text \in DateTexts) => out.field = "created"

\* 拍摄 with no date at all: the field is taken, and there is no range
C14_Witness ==
    /\ op = "date"
    /\ text = FieldText(<<>>, 2, 1)
    /\ out.field = "taken"
    /\ out.start = None

(***************************************************************************)
(* Ranges of sizes                                                         *)
(***************************************************************************)
\* the factor of the unit on one side of a range: its own, or the one of the
\* other side when it has none
SideFactor(u, other) ==
    IF RangeUnits[u].w # <<>> THEN RangeUnits[u].factor ELSE RangeUnits[other].factor

\* the range of n1 u1 .. n2 u2 with its ends in order
OrderedRange(n1, u1, n2, u2) ==
    LET a == n1 * SideFactor(u1, u2)
        b == n2 * SideFactor(u2, u1)
    IN  [min |-> Some(IF a <= b THEN a ELSE b), max |-> Some(IF a <= b THEN b ELSE a)]

\* C15: a range with a unit on neither side gives no size at all; with a unit
\* on one side only, the other side takes the same unit; and the bounds of a
\* range are returned with min <= max, swapped when written the other way
C15_RangeUnitsAndOrder ==
    \A n1 \in RangeNumbers, n2 \in RangeNumbers :
    \A u1 \in 1..Len(RangeUnits), u2 \in 1..Len(RangeUnits), sep \in RangeSeps :
        (op = "size" /\ text = SizeRangeText(n1, u1, sep, n2, u2)) =>
            /\ (RangeUnits[u1].w = <<>> /\ RangeUnits[u2].w = <<>>) => out = NoSize
            /\ (RangeUnits[u1].w # <<>> \/ RangeUnits[u2].w # <<>>) =>
                    /\ out = OrderedRange(n1, u1, n2, u2)
                    /\ out.min[1] <= out.max[1]

\* 5-3MB: the 5 takes the unit of the 3, and the ends are swapped
C15_Witness ==
    /\ op = "size"
    /\ text = SizeRangeText(5, 1, <<"-">>, 3, 2)
    /\ out = [min |-> Some(3 * 1024 * 1024), max |-> Some(5 * 1024 * 1024)]

(***************************************************************************)
(* The qualifier of a single size                                          *)
(***************************************************************************)
\* the kind of the qualifier written next to the size: before it or after it
OwnQualifier(b, a) ==
    IF QualifiersBefore[b].kind # "none" THEN QualifiersBefore[b].kind
    ELSE QualifiersAfter[a].kind

\* C16: a single size with a unit and no range gives a lower bound only when
\* an above qualifier is written next to it, an upper bound only when a below
\* qualifier is written next to it, and both bounds equal to the size
\* otherwise; the qualifier of another part of the text, a resolution here,
\* changes nothing
C16_QualifierOfTheSize ==
    \A v \in 1..Len(SizeValues), o \in 1..Len(OtherParts) :
    \A b \in 1..Len(QualifiersBefore), a \in 1..Len(QualifiersAfter) :
        (/\ op = "size"
         /\ text = SingleSizeText(v, b, a, o)
         /\ QualifiersBefore[b].kind = "none" \/ QualifiersAfter[a].kind = "none") =>
            out = CASE OwnQualifier(b, a) = "above" ->
                         [min |-> Some(SizeValues[v].bytes), max |-> None]
                    [] OwnQualifier(b, a) = "below" ->
                         [min |-> None, max |-> Some(SizeValues[v].bytes)]
                    [] OTHER ->
                         [min |-> Some(SizeValues[v].bytes),
                          max |-> Some(SizeValues[v].bytes)]

(***************************************************************************)
(* The width of <digits>p                                                  *)
(***************************************************************************)
\* h * 16 / 9 rounded to the nearest integer
NearestWidth(h) == (32 * h + 9) \div 18

\* C17: for a token <digits>p of three or four digits, in a text with no
\* pattern of an earlier priority, the height is the digits, the width is
\* height * 16 / 9 rounded to the nearest integer, and the pixels are
\* width * height
C17_WidthRounded ==
    \A h \in Heights, tail \in {<<>>, <<" ", "ri", "luo">>} :
        (op = "resolution" /\ text = HeightText(h, tail)) =>
            /\ out.height = Some(h)
            /\ out.width = Some(NearestWidth(h))
            /\ out.pixels = Some(NearestWidth(h) * h)

(***************************************************************************)
(* The groups of keywords                                                  *)
(***************************************************************************)
\* the elements of s, each at its first appearance only
RECURSIVE FirstAppearances(_)
FirstAppearances(s) ==
    IF s = <<>> THEN <<>>
    ELSE LET r == FirstAppearances(SubSeq(s, 1, Len(s) - 1))
         IN  IF \E j \in 1..Len(r) : r[j] = s[Len(s)] THEN r ELSE Append(r, s[Len(s)])

\* the terms written in a text of this shape
TermsOf(sh) == [i \in 1..Len(sh.ts) |-> Terms[sh.ts[i]]]

\* a text of this shape has an AND connective
HasAnd(sh) == \E i \in 1..Len(sh.ls) : Links[sh.ls[i]] \in AndConnectives

\* C18: of a text with no AND connective, every term that is written comes
\* back whole, as a group of its own, once, in the order of its first
\* appearance; nothing else comes back
C18_BareTermsKeptWhole ==
    \A sh \in KeywordShapes :
        (op = "groups" /\ text = KeywordText(sh.ts, sh.ls) /\ ~HasAnd(sh)) =>
            /\ out = [i \in 1..Len(FirstAppearances(TermsOf(sh))) |->
                        <<FirstAppearances(TermsOf(sh))[i]>>]
            /\ \A g \in 1..Len(out) : Len(out[g]) = 1

\* the terms of a text of this shape from the i-th on, cut into groups at the
\* OR connectives; cur is the group that is open
RECURSIVE GroupsFrom(_, _, _)
GroupsFrom(sh, i, cur) ==
    IF i > Len(sh.ts) THEN <<FirstAppearances(cur)>>
    ELSE IF Links[sh.ls[i - 1]] \in OrConnectives
         THEN <<FirstAppearances(cur)>> \o GroupsFrom(sh, i + 1, <<Terms[sh.ts[i]]>>)
         ELSE GroupsFrom(sh, i + 1, Append(cur, Terms[sh.ts[i]]))

\* C19: of a text with an AND connective somewhere, the groups are the
\* stretches between the OR connectives (或者, or, | here), each with all the
\* terms written in it, and no connective is a term
C19_GroupsBetweenOrs ==
    \A sh \in KeywordShapes :
        (op = "groups" /\ text = KeywordText(sh.ts, sh.ls) /\ HasAnd(sh)) =>
            /\ out = GroupsFrom(sh, 2, <<Terms[sh.ts[1]]>>)
            /\ \A g \in 1..Len(out) : \A k \in 1..Len(out[g]) :
                    out[g][k] \notin AndConnectives \cup OrConnectives

(***************************************************************************)
(* The logic mode                                                          *)
(***************************************************************************)
\* the text has one of the words of the list ws, the empty first entry aside
HasWordOf(ws, t) == \E i \in 2..Len(ws) : Contains(t, ws[i])

SearchKeywords == IF op = "chat" THEN chat_keywords(text, hints) ELSE hints

\* the request was answered by _ai_advanced_search in OR mode
OrSearch == op \in {"advanced", "chat"} /\ status = 200 /\ _ai_detect_logic_mode(text) = "or"

OrSegments == _split_or_segments(text)

\* the condition of the i-th segment, or None
SegmentCond(i) ==
    _ai_build_clause_condition(OrSegments[i], seg_kws(OrSegments[i], SearchKeywords))

\* the segments that yield a condition
UsableSegments == {i \in 1..Len(OrSegments) : SegmentCond(i) # None}

\* the rows of the user, not in the recycle bin, that one of the usable
\* segments matches
SegmentMatches ==
    LET conds == Present([i \in 1..Len(OrSegments) |-> SegmentCond(i)])
    IN  UNION {Where(_query_user_images(req.user, FALSE), conds[i], req.user) :
                  i \in 1..Len(conds)}

\* C21: in OR mode the rows returned are rows that a segment with a condition
\* matches, all of them when the request has no limit and as many as the
\* limit allows otherwise; a segment without a condition adds nothing, and
\* when no segment has a condition the result is empty
C21_UnionOfUsableSegments ==
    OrSearch =>
        LET conds == Present([i \in 1..Len(OrSegments) |-> SegmentCond(i)])
            matches == UNION {Where(_query_user_images(req.user, FALSE), conds[i], req.user) :
                                 i \in 1..Len(conds)}
        IN  /\ Ids(result) \subseteq matches
            /\ (req.limit = None \/ req.limit = Some(0)) => Ids(result) = matches
            /\ (req.limit # None /\ req.limit # Some(0)) =>
                    Len(result) = IF Cardinality(matches) < req.limit[1]
                                  THEN Cardinality(matches) ELSE req.limit[1]
            /\ conds = <<>> => result = <<>>
            /\ pred = IF conds = <<>> THEN Nothing ELSE or_(conds)

\* 猫 或者 查找: the second segment is dropped, and the rows named 猫 come back
C21_Witness ==
    /\ OrSearch
    /\ op = "advanced"
    /\ text = <<"mao", " ", "huo", "zhe", " ", "cha", "zhao3">>
    /\ Len(OrSegments) = 2
    /\ UsableSegments = {1}
    /\ req.user = 1
    /\ req.limit = None
    /\ result = <<1>>

(***************************************************************************)
(* The hints                                                               *)
(***************************************************************************)
\* a condition has been built from a text and a list of hints
HintsApplied == op = "cond" /\ text \in HintQueries /\ hints \in TestHintLists

\* the hints of the list that are of a kind, trimmed
TrimmedHints(kinds) ==
    {Strip(HintWords[i].w, Spaces) :
        i \in {j \in 1..Len(HintWords) :
                  HintWords[j].kind \in kinds /\ \E k \in 1..Len(hints) : hints[k] = HintWords[j].w}}

\* the clauses of a condition: the disjuncts of an OR query, or the condition
ClausesOf(c, t) == IF _ai_detect_logic_mode(t) = "or" /\ c.k = "or" THEN c.cs ELSE <<c>>

\* C22: a hint is a keyword term of a clause only if it is not empty after
\* trimming, has at most 40 characters, is no noise and is not shaped like a
\* date, a size or a resolution; in OR mode it is a term of the clause of a
\* segment only if it is written in that segment; and the bounds of every
\* clause are the ones the text gives without any hint
C22_HintsAreAdvisory ==
    HintsApplied =>
        LET base == advanced_cond(text, <<>>)
            now == ClausesOf(out, text)
            was == ClausesOf(base, text)
            segs == IF _ai_detect_logic_mode(text) = "or"
                    THEN _split_or_segments(text) ELSE <<text>>
        IN  /\ Len(now) = Len(was)
            /\ Len(now) = Len(segs)
            /\ \A j \in 1..Len(now) :
                /\ KeywordTerms(was[j]) \subseteq KeywordTerms(now[j])
                /\ KeywordTerms(now[j]) \ KeywordTerms(was[j]) \subseteq TrimmedHints({"term"})
                /\ Bounds(now[j]) = Bounds(was[j])
                /\ _ai_detect_logic_mode(text) = "or" =>
                        KeywordTerms(now[j]) \ KeywordTerms(was[j])
                            = {h \in TrimmedHints({"term"}) : Contains(segs[j], h)}
                /\ _ai_detect_logic_mode(text) # "or" =>
                        KeywordTerms(now[j]) \ KeywordTerms(was[j]) = TrimmedHints({"term"})

\* 风景 或者 日落 5MB with all the hints: 日 is a term of the second clause only,
\* and no other hint is a term of either
C22_Witness ==
    /\ HintsApplied
    /\ text = <<"feng", "jing", " ", "huo", "zhe", " ", "ri", "luo", " ", "5", "M", "B">>
    /\ Len(hints) = Len(HintWords)
    /\ out.k = "or"
    /\ KeywordTerms(out.cs[1]) = {<<"feng", "jing">>}
    /\ KeywordTerms(out.cs[2]) = {<<"ri", "luo">>, <<"ri">>}
    /\ Bounds(out.cs[1]) = {}
    /\ Bounds(out.cs[2]) # {}

(***************************************************************************)
(* The camera phrase                                                       *)
(***************************************************************************)
\* the terms that c matches against the camera column
CameraTerms(c) ==
    LET ls == Leaves(c)
    IN  {ls[i].term : i \in {j \in 1..Len(ls) : ls[j].k = "ilike" /\ ls[j].col = "camera"}}

\* C23: the camera phrase found in a text is what the camera column is
\* matched against, and it is no keyword term, in the condition of the clause
\* builder and in the filter of /search
C23_CameraPhraseIsNoKeyword ==
    (op \in {"cond", "search"} /\ text \in CameraTexts) =>
        /\ _ai_parse_camera_keyword(text) # <<>>
        /\ CameraTerms(out) = {_ai_parse_camera_keyword(text)}
        /\ _ai_parse_camera_keyword(text) \notin KeywordTerms(out)

(***************************************************************************)
(* A keywords argument of the wrong shape                                  *)
(***************************************************************************)
\* C24: a keywords argument that is no list of strings (None, a number, a
\* string, a list with an item that is no string) raises no error, and the
\* filter is the one of the same text with no hints
C24_MalformedHintsAsNone ==
    (op = "argument") =>
        /\ out.error = "none"
        /\ out.cond = advanced_cond(text, <<>>)

(***************************************************************************)
(* The recycle bin: trash_one, trash_batch, recycle_restore,               *)
(* recycle_purge, recycle_clear, list_recycle and the purge thread         *)
(***************************************************************************)
\* the last day of the clock
MaxDay == 4

\* the largest image id
MaxImages == 3

\* RECYCLE_RETENTION_DAYS
RetentionDays == {0, 1}

\* the default of purge_expired_recycle's batch_size
batch_size == 200

Day(d) == <<2024, 3, d, 0, 0, 0, 0>>

\* datetime.utcnow()
utcnow == Day(today)

\* dt - timedelta(days=n), for a day that stays in the month
MinusDays(dt, n) == [dt EXCEPT ![3] = @ - n]

\* the ids of a request body: one id, every id, or none
IdSets == {{i} : i \in 1..MaxImages} \cup {1..MaxImages, {}}

\* an image in the recycle bin and an active image, of two users
RecycleCatalog ==
    <<Row(1, 1, <<"mao">>, 500 * 1024, Some(800), Some(600), None, Day(1), {}, {}, Day(3)),
      Row(2, 2, <<"ri", "luo">>, 500 * 1024, Some(800), Some(600), None, Day(2), {}, {}, None)>>

\* the purge thread sleeps between two calls of purge_expired_recycle
Sleeping == [pc |-> "sleep", cutoff |-> None, batch |-> {}]

\* the rows of ids, deleted
DeleteRows(ids) == [i \in DOMAIN images \ ids |-> images[i]]

\* the rows of ids, with deleted_at set to d
SetDeletedAt(ids, d) ==
    [i \in DOMAIN images |-> IF i \in ids THEN [images[i] EXCEPT !.deleted_at = d] ELSE images[i]]

\* Image.deleted_at.asc(); the rows of one time come by id
trashed_asc(i, j) ==
    \/ DtLt(images[i].deleted_at, images[j].deleted_at)
    \/ images[i].deleted_at = images[j].deleted_at /\ i < j

\* the query of purge_expired_recycle: the rows in the bin since the cutoff or
\* before, of user_id if there is one, the first batch_size of them
expired_rows(cutoff, user_id) ==
    LET q == {i \in DOMAIN images :
                 /\ images[i].deleted_at # None
                 /\ DtLe(images[i].deleted_at, cutoff)
                 /\ (user_id # None => images[i].user_id = user_id[1])}
    IN  IF Cardinality(q) <= batch_size THEN q
        ELSE {OrderBy(q, trashed_asc)[k] : k \in 1..batch_size}

\* the state the server starts with
RecycleInit ==
    /\ text = <<>>
    /\ hints = <<>>
    /\ images = RecycleCatalog
    /\ disk = DOMAIN RecycleCatalog
    /\ op = "none"
    /\ req = [user |-> 0, ids |-> {}]
    /\ pred = NoCond
    /\ result = <<>>
    /\ total = 0
    /\ status = 0
    /\ out = None
    /\ today = 3
    /\ retention \in RetentionDays
    /\ purge = Sleeping
    /\ gone = {}
    /\ tagrows = <<>>
    /\ links = {}
    /\ agent = <<>>

\* upload(): a new row, active, with the next id
Upload ==
    /\ Cardinality(DOMAIN images) + Cardinality(gone) < MaxImages
    /\ \E u \in Users :
        /\ \E id \in {Cardinality(DOMAIN images) + Cardinality(gone) + 1} :
            /\ images' = [i \in DOMAIN images \cup {id} |->
                             IF i = id
                             THEN Row(id, u, <<"mao">>, 500 * 1024, Some(800), Some(600), None,
                                      utcnow, {}, {}, None)
                             ELSE images[i]]
            /\ disk' = disk \cup {id}
        /\ req' = [user |-> u, ids |-> {}]
    /\ op' = "upload"
    /\ status' = 200
    /\ UNCHANGED <<text, hints, pred, result, total, out, today, retention, purge, gone,
                   tagVars, agentVars>>

\* trash_one(image_id)
TrashOne ==
    /\ \E u \in Users, id \in 1..MaxImages :
        /\ req' = [user |-> u, ids |-> {id}]
        /\ IF id \notin _query_user_images(u, TRUE)
           THEN status' = 404 /\ images' = images
           ELSE IF images[id].deleted_at # None
           THEN status' = 400 /\ images' = images
           ELSE status' = 200 /\ images' = SetDeletedAt({id}, utcnow)
    /\ op' = "trash_one"
    /\ UNCHANGED <<text, hints, disk, pred, result, total, out, today, retention, purge, gone,
                   tagVars, agentVars>>

\* trash_batch()
TrashBatch ==
    /\ \E u \in Users, ids \in IdSets :
        /\ req' = [user |-> u, ids |-> ids]
        /\ IF ids = {}
           THEN status' = 400 /\ images' = images
           ELSE status' = 200
                /\ images' = SetDeletedAt(_query_user_images(u, TRUE) \cap ids, utcnow)
    /\ op' = "trash_batch"
    /\ UNCHANGED <<text, hints, disk, pred, result, total, out, today, retention, purge, gone,
                   tagVars, agentVars>>

\* recycle_restore()
RecycleRestore ==
    /\ \E u \in Users, ids \in IdSets :
        /\ req' = [user |-> u, ids |-> ids]
        /\ IF ids = {}
           THEN status' = 400 /\ images' = images
           ELSE status' = 200
                /\ images' = SetDeletedAt(_query_user_images(u, TRUE) \cap ids, None)
    /\ op' = "recycle_restore"
    /\ UNCHANGED <<text, hints, disk, pred, result, total, out, today, retention, purge, gone,
                   tagVars, agentVars>>

\* recycle_purge()
RecyclePurge ==
    /\ \E u \in Users, ids \in IdSets :
        /\ req' = [user |-> u, ids |-> ids]
        /\ IF ids = {}
           THEN status' = 400 /\ UNCHANGED <<images, disk, gone>>
           ELSE /\ status' = 200
                /\ \E imgs \in {_query_user_images(u, TRUE) \cap ids} :
                    /\ images' = DeleteRows(imgs)
                    /\ disk' = disk \ imgs
                    /\ gone' = gone \cup imgs
    /\ op' = "recycle_purge"
    /\ UNCHANGED <<text, hints, pred, result, total, out, today, retention, purge,
                   tagVars, agentVars>>

\* recycle_clear()
RecycleClear ==
    /\ \E u \in Users :
        /\ req' = [user |-> u, ids |-> {}]
        /\ \E imgs \in {{i \in _query_user_images(u, TRUE) : images[i].deleted_at # None}} :
            /\ images' = DeleteRows(imgs)
            /\ disk' = disk \ imgs
            /\ gone' = gone \cup imgs
    /\ op' = "recycle_clear"
    /\ status' = 200
    /\ UNCHANGED <<text, hints, pred, result, total, out, today, retention, purge,
                   tagVars, agentVars>>

\* list_recycle(): purge_expired_recycle(user_id=user_id), in one piece, before
\* the listing
ListRecycle ==
    /\ \E u \in Users :
        /\ req' = [user |-> u, ids |-> {}]
        /\ IF retention <= 0
           THEN UNCHANGED <<images, disk, gone>>
           ELSE \E cutoff \in {MinusDays(utcnow, retention)} :
                \E imgs \in {expired_rows(cutoff, Some(u))} :
                    /\ images' = DeleteRows(imgs)
                    /\ disk' = disk \ imgs
                    /\ gone' = gone \cup imgs
    /\ op' = "list_recycle"
    /\ status' = 200
    /\ UNCHANGED <<text, hints, pred, result, total, out, today, retention, purge,
                   tagVars, agentVars>>

\* the retention_days of the purge thread
thread_retention_days == IF retention > 1 THEN retention ELSE 1

\* the purge thread wakes up and calls purge_expired_recycle(retention_days):
\* the cutoff is taken once
PurgeStart ==
    /\ purge.pc = "sleep"
    /\ purge' = [pc |-> "query", cutoff |-> Some(MinusDays(utcnow, thread_retention_days)),
                 batch |-> {}]
    /\ op' = "purge_start"
    /\ UNCHANGED <<text, hints, images, disk, req, pred, result, total, status, out, today,
                   retention, gone, tagVars, agentVars>>

\* the thread's query: the batch of expired rows, or none and the thread sleeps
PurgeSelect ==
    /\ purge.pc = "query"
    /\ \E expired \in {expired_rows(purge.cutoff[1], None)} :
        purge' = IF expired = {} THEN Sleeping
                 ELSE [purge EXCEPT !.pc = "selected", !.batch = expired]
    /\ op' = "purge_select"
    /\ UNCHANGED <<text, hints, images, disk, req, pred, result, total, status, out, today,
                   retention, gone, tagVars, agentVars>>

\* the thread removes the files of its batch, deletes the rows by their ids and
\* commits; a batch that was not full was the last one
PurgeDelete ==
    /\ purge.pc = "selected"
    /\ images' = DeleteRows(purge.batch)
    /\ disk' = disk \ purge.batch
    /\ gone' = gone \cup (purge.batch \cap DOMAIN images)
    /\ purge' = IF Cardinality(purge.batch) < batch_size THEN Sleeping
                ELSE [purge EXCEPT !.pc = "query", !.batch = {}]
    /\ op' = "purge_delete"
    /\ UNCHANGED <<text, hints, req, pred, result, total, status, out, today, retention,
                   tagVars, agentVars>>

\* a day passes
Tick ==
    /\ today < MaxDay
    /\ today' = today + 1
    /\ op' = "tick"
    /\ UNCHANGED <<text, hints, images, disk, req, pred, result, total, status, out, retention,
                   purge, gone, tagVars, agentVars>>

RecycleNext ==
    \/ Upload
    \/ TrashOne
    \/ TrashBatch
    \/ RecycleRestore
    \/ RecyclePurge
    \/ RecycleClear
    \/ ListRecycle
    \/ PurgeStart
    \/ PurgeSelect
    \/ PurgeDelete
    \/ Tick

RecycleSpec == RecycleInit /\ [][RecycleNext]_vars

\* C25: a row that recycle_purge, recycle_clear or purge_expired_recycle (called by
\* list_recycle or by the purge thread) deletes for good is in the recycle bin
\* when it is deleted: its deleted_at is not null
C25_OnlyBinnedRowsDeleted ==
    [][op' \in {"recycle_purge", "recycle_clear", "list_recycle", "purge_delete"}
          => \A i \in DOMAIN images \ DOMAIN images' : images[i].deleted_at # None]_vars

\* C26: a row that purge_expired_recycle deletes is, at the step that deletes it,
\* in the recycle bin with deleted_at <= now - retention_days, whatever the
\* requests did since the batch was selected; with retention_days <= 0 the call
\* deletes nothing
C26_PurgeDeletesOnlyExpired ==
    [][/\ op' = "purge_delete"
          => \A i \in DOMAIN images \ DOMAIN images' :
                /\ images[i].deleted_at # None
                /\ DtLe(images[i].deleted_at, MinusDays(utcnow, thread_retention_days))
       /\ op' = "list_recycle"
          => \A i \in DOMAIN images \ DOMAIN images' :
                /\ retention > 0
                /\ images[i].deleted_at # None
                /\ DtLe(images[i].deleted_at, MinusDays(utcnow, retention))]_vars

\* C27: trash_one and trash_batch leave the deleted_at of a row that is already in
\* the recycle bin as it is; deleted_at changes only when the row is restored
\* (to null) or when an active row is put in the bin
C27_TrashKeepsDeletedAt ==
    [][\A i \in DOMAIN images \cap DOMAIN images' :
          /\ (op' \in {"trash_one", "trash_batch"} /\ images[i].deleted_at # None)
                => images'[i].deleted_at = images[i].deleted_at
          /\ images'[i].deleted_at # images[i].deleted_at
                => \/ op' = "recycle_restore" /\ images'[i].deleted_at = None
                   \/ op' \in {"trash_one", "trash_batch"} /\ images[i].deleted_at = None]_vars

\* the requests of a user on the recycle bin
RecycleRequests ==
    {"trash_one", "trash_batch", "recycle_restore", "recycle_purge", "recycle_clear",
     "list_recycle"}

\* C28: trash_one, trash_batch, recycle_restore, recycle_purge, recycle_clear and
\* list_recycle (with its purge of the caller's expired rows), sent by a user with
\* any ids, leave every row of another user in the table and unchanged
C28_OnlyOwnRowsTouched ==
    [][op' \in RecycleRequests
          => \A i \in DOMAIN images :
                images[i].user_id # req'.user
                    => i \in DOMAIN images' /\ images'[i] = images[i]]_vars

\* user 1 has asked to purge every id: its own row is gone and the row of user 2
\* is still there
C28_Witness ==
    /\ op = "recycle_purge"
    /\ req = [user |-> 1, ids |-> 1..MaxImages]
    /\ 1 \notin DOMAIN images
    /\ 2 \in DOMAIN images
    /\ images[2].user_id = 2

(***************************************************************************)
(* merge_tags                                                              *)
(***************************************************************************)
\* the tags table: three tags of user 1 and one of user 2
TagRows ==
    <<[user_id |-> 1, name |-> <<"mao">>], [user_id |-> 1, name |-> <<"gou">>],
      [user_id |-> 1, name |-> <<"ri", "luo">>], [user_id |-> 2, name |-> <<"mao">>]>>

\* the rows that image_tags can hold: an image gets the tags of its own user
OwnLinks ==
    {p \in {1, 2, 5} \X DOMAIN TagRows : Catalog[p[1]].user_id = TagRows[p[2]].user_id}

\* the number of rows (image_id, tag_id) = p in the table l
Copies(l, p) == IF p \in DOMAIN l THEN l[p] ELSE 0

\* image_tags.insert() of the rows ps
InsertLinks(l, ps) ==
    [p \in DOMAIN l \cup ps |-> Copies(l, p) + (IF p \in ps THEN 1 ELSE 0)]

\* image_tags.delete().where(image_tags.c.tag_id.in_(tag_ids))
DeleteLinks(l, tag_ids) == [p \in {q \in DOMAIN l : q[2] \notin tag_ids} |-> l[p]]

\* the source_ids of a request: none, one or two tags, a tag twice, a tag of the
\* other user, a tag that does not exist
SourceLists == {<<>>, <<1>>, <<1, 2>>, <<1, 1>>, <<4>>, <<1, 4>>, <<5>>}

\* the target_id of a request; 0 is a body without target_id
TargetIds == 0..5

\* _tag_query(user_id)
_tag_query(user_id) == {t \in DOMAIN tagrows : tagrows[t].user_id = user_id}

\* the images that carry a tag of source_ids
img_ids(source_ids) == {p[1] : p \in {q \in DOMAIN links : q[2] \in Range(source_ids)}}

\* image_tags with a row of the target inserted for every image of img_ids,
\* whether it has one or not
merged_links_always_insert(source_ids, target_id) ==
    InsertLinks(links, {<<i, target_id>> : i \in img_ids(source_ids)})

\* image_tags after the loop over img_ids: a row of the target is inserted for
\* the images that do not have one
merged_links(source_ids, target_id) ==
    InsertLinks(links, {<<i, target_id>> : i \in {j \in img_ids(source_ids) :
                                                   <<j, target_id>> \notin DOMAIN links}})

\* the tables before a merge
TagInit ==
    /\ text = <<>>
    /\ hints = <<>>
    /\ images = Catalog
    /\ disk = DOMAIN Catalog
    /\ op = "none"
    /\ req = [user |-> 0, source_ids |-> <<>>, target_id |-> 0]
    /\ pred = NoCond
    /\ result = <<>>
    /\ total = 0
    /\ status = 0
    /\ out = None
    /\ today = 0
    /\ retention = 0
    /\ purge = <<>>
    /\ gone = {}
    /\ tagrows = TagRows
    /\ links \in {[p \in s |-> 1] : s \in SUBSET OwnLinks}
    /\ agent = <<>>

\* the images of img_ids for which the handler's `exists` is a row
with_target(source_ids, target_id) ==
    {i \in img_ids(source_ids) : <<i, target_id>> \in DOMAIN links}

\* merge_tags(); `out` is what the handler has found: img_ids, and the images of
\* it with a row of the target
MergeTags ==
    /\ \E u \in Users, source_ids \in SourceLists, target_id \in TargetIds :
        /\ req' = [user |-> u, source_ids |-> source_ids, target_id |-> target_id]
        /\ IF source_ids = <<>> \/ target_id = 0
           THEN status' = 400 /\ UNCHANGED <<tagrows, links, out>>
           ELSE IF target_id \in Range(source_ids)
           THEN status' = 400 /\ UNCHANGED <<tagrows, links, out>>
           ELSE \E tag_map \in {_tag_query(u) \cap (Range(source_ids) \cup {target_id})} :
                IF target_id \notin tag_map
                THEN status' = 404 /\ UNCHANGED <<tagrows, links, out>>
                ELSE IF \E k \in 1..Len(source_ids) : source_ids[k] \notin tag_map
                THEN status' = 404 /\ UNCHANGED <<tagrows, links, out>>
                ELSE /\ status' = 200
                     /\ out' = Some([img_ids |-> img_ids(source_ids),
                                  exists |-> with_target(source_ids, target_id)])
                     /\ links' = DeleteLinks(merged_links(source_ids, target_id),
                                             Range(source_ids))
                     /\ tagrows' = [t \in DOMAIN tagrows \ Range(source_ids) |-> tagrows[t]]
    /\ op' = "merge_tags"
    /\ UNCHANGED <<text, hints, images, disk, pred, result, total, recycleVars, agentVars>>

TagNext == MergeTags

TagSpec == TagInit /\ [][TagNext]_vars

\* the tags of user u before a step
Owned(u) == {t \in DOMAIN tagrows : tagrows[t].user_id = u}

\* C29: after a merge that succeeded, every image that carried a source tag carries
\* the target, every image that carried the target carries it once, no row of
\* image_tags is there twice, no source tag and no row of a source tag is left,
\* and the rows of the other tags are as before; a merge whose target is among
\* the sources, or whose target or one of whose sources is not a tag of the
\* user, is rejected and changes no tag and no row
C29_MergeMovesLinks ==
    [][op' = "merge_tags"
          => \E src \in {Range(req'.source_ids)}, tgt \in {req'.target_id} :
                /\ status' = 200
                    => /\ \A p \in DOMAIN links :
                            p[2] \in src \cup {tgt} => Copies(links', <<p[1], tgt>>) = 1
                       /\ \A p \in DOMAIN links' : links'[p] = 1 /\ p[2] \notin src
                       /\ \A p \in DOMAIN links' :
                            p[2] = tgt => \E q \in DOMAIN links : q[1] = p[1] /\ q[2] \in src \cup {tgt}
                       /\ src \cap DOMAIN tagrows' = {}
                       /\ DOMAIN tagrows' = DOMAIN tagrows \ src
                       /\ \A t \in DOMAIN tagrows' : tagrows'[t] = tagrows[t]
                       /\ \A p \in DOMAIN links \cup DOMAIN links' :
                            p[2] \notin src \cup {tgt} => Copies(links', p) = Copies(links, p)
                /\ status' # 200 => links' = links /\ tagrows' = tagrows
                /\ (tgt \in src \/ ~((src \cup {tgt}) \subseteq Owned(req'.user)))
                    => status' \in {400, 404}]_vars

\* a merge of the tags 1 and 2 into 3 succeeded for two images, one of which
\* carried tag 3 before
C29_Witness ==
    /\ op = "merge_tags"
    /\ status = 200
    /\ req = [user |-> 1, source_ids |-> <<1, 2>>, target_id |-> 3]
    /\ out = Some([img_ids |-> {1, 2}, exists |-> {1}])
    /\ DOMAIN links = {<<1, 3>>, <<2, 3>>}

(***************************************************************************)
(* ReActAgent.run_task                                                     *)
(***************************************************************************)
\* the largest max_steps of a call
MaxSteps == 3

FinalAnswerLabel == <<"F", "i", "n", "a", "l", " ", "A", "n", "s", "w", "e", "r", ":">>

ActionLabel == <<"A", "c", "t", "i", "o", "n", ":">>

ActionInputLabel == <<"A", "c", "t", "i", "o", "n", " ", "I", "n", "p", "u", "t", ":">>

\* three backquotes
Fence == <<"bq", "bq", "bq">>

PythonFence == Fence \o <<"p", "y", "t", "h", "o", "n", "nl">>

\* [\s\S]
Anything == NCls({})

\* Final Answer:\s*([\s\S]*), re.IGNORECASE
FinalAnswerPattern ==
    Cat(<<LitI(FinalAnswerLabel), Star(Cls(Spaces)), Grp(1, Star(Anything))>>)

\* Action Input:\s*```python\n([\s\S]*?)```
LabeledCodePattern ==
    Cat(<<Lit(ActionInputLabel), Star(Cls(Spaces)), Lit(PythonFence),
          Grp(1, LazyRep(Anything, 0, -1)), Lit(Fence)>>)

\* ```python\n([\s\S]*?)```
PlainCodePattern == Cat(<<Lit(PythonFence), Grp(1, LazyRep(Anything, 0, -1)), Lit(Fence)>>)

\* the lines of fa, each stripped, the empty ones dropped, joined by a newline
StrippedLines(fa) ==
    Eager(SplitBy(fa, {"nl"}), LAMBDA ls :
        Join(SelectSeq(([i \in 1..Len(ls) |-> Strip(ls[i], Spaces)] \o <<>>),
                       LAMBDA ln : ln # <<>>), <<"nl">>))

\* the final answer as _parse_react_text cleans it
clean_final_answer(fa) ==
    StrippedLines(
        ReSub(Cat(<<Lit(<<"nl">>), Plus(Cls({" ", "tab"}))>>), <<"nl">>,
              ReSub(Cat(<<Plus(Cls({" ", "tab"})), Lit(<<"nl">>)>>), <<"nl">>,
                    StrReplace(Strip(fa, Spaces), <<"\\", "n">>, <<"nl">>))))

\* the code of the labelled block, or of the first plain block; None without a
\* block
code_of(t) ==
    Eager(ReSearch(LabeledCodePattern, t), LAMBDA m_code_labeled :
        IF m_code_labeled.ok THEN Some(Strip(GroupOf(t, m_code_labeled, 1), Spaces))
        ELSE Eager(ReSearch(PlainCodePattern, t), LAMBDA m_code_plain :
                IF m_code_plain.ok THEN Some(Strip(GroupOf(t, m_code_plain, 1), Spaces))
                ELSE None))

\* _parse_react_text(text), None as <<>>; the action that the text names after
\* "Action:" is parsed and not used
_parse_react_text(t) ==
    Eager(ReSearch(FinalAnswerPattern, t), LAMBDA m_fa :
        IF m_fa.ok
        THEN Some([action |-> "final", final_answer |-> clean_final_answer(GroupOf(t, m_fa, 1))])
        ELSE Eager(code_of(t), LAMBDA code :
                IF code # None /\ code[1] # <<>>
                THEN Some([action |-> "python", code |-> code[1]])
                ELSE None))

\* _react_once(messages) for the text that _call_llm returned
_react_once(t) ==
    Eager(_parse_react_text(t), LAMBDA parsed :
        IF parsed # None THEN parsed[1] ELSE [action |-> "error", message |-> t])

\* what the model can answer: a labelled block of code, a plain block, a block
\* for an action that is not python, an empty block, a final answer, a final
\* answer in lower case after a block, and a text with neither
ModelOutputs ==
    {ActionLabel \o <<" ", "p", "y", "t", "h", "o", "n", "nl">> \o ActionInputLabel \o <<" ">> \o PythonFence
        \o <<"x", "nl">> \o Fence,
     PythonFence \o <<"y", "nl">> \o Fence,
     ActionLabel \o <<" ", "g", "o", "nl">> \o PythonFence \o <<"z", "nl">> \o Fence,
     PythonFence \o <<" ", "nl">> \o Fence,
     FinalAnswerLabel \o <<"nl", "@", "a", " ", "nl", " ", "@", "b">>,
     PythonFence \o <<"x", "nl">> \o Fence \o <<"nl">> \o LowerText(FinalAnswerLabel)
        \o <<" ", "@", "c">>,
     <<"x", " ", "y">>}

\* what run_code returns: output, an error with its return code, nothing, or
\* the result of a run that took more than 40 seconds
RunResults ==
    {[stdout |-> <<"1", "nl">>, stderr |-> <<>>, returncode |-> 0],
     [stdout |-> <<>>, stderr |-> <<"e", "nl">>, returncode |-> 1],
     [stdout |-> <<>>, stderr |-> <<>>, returncode |-> 0],
     [stdout |-> <<>>, stderr |-> <<"nl", "TimeoutExpired">>, returncode |-> 124]}

\* str(n) of a number n >= 0
RECURSIVE DecimalText(_)
DecimalText(n) ==
    IF n < 10 THEN <<CHOOSE c \in Digits : DigitVal(c) = n>>
    ELSE DecimalText(n \div 10) \o DecimalText(n % 10)

\* _format_observation(res): the parts that are there, each on its line
_format_observation(res) ==
    LET stdout == Strip(res.stdout, Spaces)
        stderr == Strip(res.stderr, Spaces)
        output == (IF stdout # <<>> THEN <<<<"STDOUT:", "nl">> \o stdout>> ELSE <<>>)
                  \o (IF stderr # <<>> THEN <<<<"STDERR:", "nl">> \o stderr>> ELSE <<>>)
                  \o (IF res.returncode # 0
                      THEN <<<<"RETURNCODE: ">> \o DecimalText(res.returncode)>> ELSE <<>>)
    IN  <<"Observation: ">>
        \o (IF output = <<>> THEN <<"Execution successful, but no output printed to STDOUT.">>
            ELSE <<"nl">> \o Join(output, <<"nl">>))

\* the message that follows every Observation
Reminder == [role |-> "user", content |-> <<"If you can answer now, ...">>]

\* a loop that takes one step more
steps_left_one_more(a) == a.step <= a.max_steps + 1

\* range(1, max_steps + 1) has a step left
steps_left(a) == a.step <= a.max_steps

\* run_task(instruction, csv_path, max_steps) is entered
AgentInit ==
    /\ text = <<>>
    /\ hints = <<>>
    /\ images = Catalog
    /\ disk = DOMAIN Catalog
    /\ op = "none"
    /\ req = NoRequest
    /\ pred = NoCond
    /\ result = <<>>
    /\ total = 0
    /\ status = 0
    /\ out = None
    /\ today = 0
    /\ retention = 0
    /\ purge = <<>>
    /\ gone = {}
    /\ tagrows = <<>>
    /\ links = {}
    /\ \E max_steps \in 0..MaxSteps, csv_exists \in BOOLEAN :
        agent = [pc |-> "enter", max_steps |-> max_steps, csv_exists |-> csv_exists,
                 step |-> 1, calls |-> 0, messages |-> <<>>, scratchpad |-> <<>>,
                 ret |-> None]

\* the check of csv_path and the first message
Enter ==
    /\ agent.pc = "enter"
    /\ agent' = IF ~agent.csv_exists
                THEN [agent EXCEPT !.pc = "done",
                                   !.ret = Some([final |-> None, error |-> <<"csv">>])]
                ELSE [agent EXCEPT !.pc = "loop",
                                   !.messages = <<[role |-> "user", content |-> <<"Question">>]>>]
    /\ op' = "enter"
    /\ UNCHANGED <<text, hints, images, disk, req, pred, result, total, status, out,
                   recycleVars, tagVars>>

\* one turn of the loop: the model answers t, and code that it asks for is run
\* with the result res; the scratchpad keeps the step, the action and the text
ReactStep ==
    /\ agent.pc = "loop"
    /\ steps_left(agent)
    /\ \E t \in ModelOutputs, res \in RunResults :
        \E step_out \in {_react_once(t)} :
        \E scratchpad \in {Append(agent.scratchpad,
                                  [step |-> agent.step, action |-> step_out.action,
                                   raw |-> IF step_out.action = "error" THEN <<>> ELSE t])} :
            agent' =
                IF step_out.action = "final"
                THEN [agent EXCEPT !.pc = "done", !.calls = @ + 1, !.scratchpad = scratchpad,
                                   !.ret = Some([final |-> Some(Strip(step_out.final_answer,
                                                                      Spaces)),
                                                 error |-> None])]
                ELSE IF step_out.action = "error"
                THEN [agent EXCEPT !.pc = "done", !.calls = @ + 1, !.scratchpad = scratchpad,
                                   !.ret = Some([final |-> None,
                                                 error |-> Some(step_out.message)])]
                ELSE [agent EXCEPT !.calls = @ + 1, !.scratchpad = scratchpad,
                                   !.step = @ + 1,
                                   !.messages = @ \o <<[role |-> "assistant", content |-> t],
                                                       [role |-> "user",
                                                        content |-> _format_observation(res)],
                                                       Reminder>>]
    /\ op' = "react"
    /\ UNCHANGED <<text, hints, images, disk, req, pred, result, total, status, out,
                   recycleVars, tagVars>>

\* _call_llm raises (the request fails, or the answer has no content): the
\* exception leaves run_task
ModelCallRaises ==
    /\ agent.pc = "loop"
    /\ steps_left(agent)
    /\ agent' = [agent EXCEPT !.pc = "raised", !.calls = @ + 1]
    /\ op' = "raise"
    /\ UNCHANGED <<text, hints, images, disk, req, pred, result, total, status, out,
                   recycleVars, tagVars>>

\* the loop is over without a final answer
Halt ==
    /\ agent.pc = "loop"
    /\ ~steps_left(agent)
    /\ agent' = [agent EXCEPT !.pc = "done",
                              !.ret = Some([final |-> Some(<<"max steps">>), error |-> None])]
    /\ op' = "halt"
    /\ UNCHANGED <<text, hints, images, disk, req, pred, result, total, status, out,
                   recycleVars, tagVars>>

AgentNext ==
    \/ Enter
    \/ ReactStep
    \/ ModelCallRaises
    \/ Halt

AgentSpec == AgentInit /\ [][AgentNext]_vars

\* run_task runs on: a call of the model and a run of the code come back
AgentFairSpec == AgentSpec /\ WF_vars(AgentNext)

\* the executed python steps of a call
PythonSteps(a) == {i \in 1..Len(a.scratchpad) : a.scratchpad[i].action = "python"}

\* the steps of a call of run_task, at any moment of it
StepsOfRunTask ==
    \E a \in {agent} : \E n \in {Len(a.scratchpad)}, p \in {Cardinality(PythonSteps(a))} :
        \* no more than max_steps calls of the model, one for every step
        /\ a.calls <= a.max_steps
        /\ a.calls = (IF a.pc = "raised" THEN n + 1 ELSE n)
        \* a step that is not a python step is the last one
        /\ \A i \in 1..n :
            /\ a.scratchpad[i].step = i
            /\ i < n => a.scratchpad[i].action = "python"
        /\ a.pc = "loop" => p = n /\ a.step = n + 1
        \* the question, and for every python step the model's text, its
        \* Observation and the reminder
        /\ a.pc # "enter" /\ a.csv_exists =>
            /\ Len(a.messages) = 1 + 3 * p
            /\ \A k \in 1..p :
                /\ a.messages[3 * k - 1] = [role |-> "assistant", content |-> a.scratchpad[k].raw]
                /\ a.messages[3 * k].role = "user"
                /\ a.messages[3 * k].content[1] = "Observation: "
                /\ a.messages[3 * k + 1] = Reminder
            /\ Cardinality({k \in 1..Len(a.messages) : a.messages[k].role = "assistant"}) = p
        \* what is returned
        /\ a.pc = "done" /\ a.csv_exists =>
            IF n > 0 /\ a.scratchpad[n].action = "final"
            THEN /\ _react_once(a.scratchpad[n].raw).action = "final"
                 /\ a.ret = Some([final |-> Some(_react_once(a.scratchpad[n].raw).final_answer),
                                  error |-> None])
            ELSE IF n > 0 /\ a.scratchpad[n].action = "error"
            THEN a.ret[1].final = None /\ a.ret[1].error # None
            ELSE /\ n = a.max_steps
                 /\ a.ret = Some([final |-> Some(<<"max steps">>), error |-> None])

\* C30: run_task ends, after at most max_steps calls of the model: the first step
\* that parses as a final answer returns that answer, the first step that does
\* not parse returns an error, every python step adds one assistant message
\* and its Observation before the next call, and a loop that ends without a
\* final answer returns the max-steps result
C30_RunTaskTerminates == []StepsOfRunTask /\ <>(agent.pc \in {"done", "raised"})

\* a call with max_steps = 3 that ran code twice and then got a text with a
\* block of code and a final answer in lower case: the answer is returned
C30_Witness ==
    /\ agent.pc = "done"
    /\ agent.max_steps = 3
    /\ agent.calls = 3
    /\ Len(agent.messages) = 7
    /\ agent.ret = Some([final |-> Some(<<"@", "c">>), error |-> None])

====
